---- MODULE Spec2Model ----
(***************************************************************************)
(* A model of plugin/wedgiebar.py: the action registry of class Actions    *)
(* (make_action, the menu buffer, execute_plugin, main) and the tunnel     *)
(* manager (do_terminate_tunnels, do_execute_ssh_tunnel).                  *)
(*                                                                         *)
(* Text is a sequence of atoms.  An atom is one character ("a", ":", " ",  *)
(* "\n") or a literal chunk the code emits as a whole ("--", "bash=\"",    *)
(* "ssh_tunnel_custom_").  Whitespace is always an atom of its own, and    *)
(* the chunks that occur inside names and identifiers consist of word      *)
(* characters only, so the per-character regular expressions of the code   *)
(* act on atoms exactly as they act on the characters.                     *)
(***************************************************************************)
EXTENDS Integers, Sequences, FiniteSets, TLC

VARIABLES
    menu_output,                  \* Actions.menu_output (instance)
    action_list,                  \* Actions.action_list: id -> ActionObject
    reserved_keyboard_shortcuts,  \* Actions.__reserved_keyboard_shortcuts (class level)
    ssh_tunnel_configs,           \* Actions.ssh_tunnel_configs (class level)
    port_redirect_configs,        \* Actions.port_redirect_configs (class level)
    pc,                           \* "build" | "exited" | "net" | "netdone"
    calls,                        \* the registry calls made so far, with what each returned
    argv,                         \* the parsed command line of this invocation
    events,                       \* externally visible effects, in order
    exit_status,                  \* "none" | "0" | "1"
    net,                          \* the tunnel manager's run: input, OS state, outcome
    clipboard                     \* the text in the system clipboard

vars == <<menu_output, action_list, reserved_keyboard_shortcuts, ssh_tunnel_configs,
          port_redirect_configs, pc, calls, argv, events, exit_status, net,
          clipboard>>

registryVars == <<menu_output, action_list, reserved_keyboard_shortcuts,
                  ssh_tunnel_configs, port_redirect_configs, calls, argv>>

\* ------------------------------------------------------------------ bounds

\* registry calls the constructor makes before main goes on
MaxCalls == 2
\* lines of the process listing
MaxPsLines == 2

\* the tunnel action is invoked up to MaxRuns times in a row
MaxRuns == 2

\* ------------------------------------------------------------------ text

None == "None"

\* [a-zA-Z0-9_] among the atoms of the model: what \w matches
WordAtoms == {"a", "b", "t", "x", "z", "1", "_", "ssh_tunnel_custom_", "port_redirect_custom_"}

\* what str.strip() removes
Whitespace == {" ", "\n", "\t"}

\* the mutant of Sanitize: every RUN of non-word atoms becomes one "_"
RECURSIVE CollapseRuns(_)
CollapseRuns(s) ==
    IF s = <<>> THEN <<>>
    ELSE IF Head(s) \in WordAtoms THEN <<Head(s)>> \o CollapseRuns(Tail(s))
    ELSE IF Len(s) > 1 /\ s[2] \notin WordAtoms THEN CollapseRuns(Tail(s))
    ELSE <<"_">> \o CollapseRuns(Tail(s))

\* re.sub(r'\W', "_", s): each non-word character becomes "_"
Sanitize(s) == [i \in 1..Len(s) |-> IF s[i] \in WordAtoms THEN s[i] ELSE "_"]

RECURSIVE LStrip(_)
LStrip(s) == IF s # <<>> /\ Head(s) \in Whitespace THEN LStrip(Tail(s)) ELSE s

RECURSIVE RStrip(_)
RStrip(s) ==
    IF s # <<>> /\ s[Len(s)] \in Whitespace THEN RStrip(SubSeq(s, 1, Len(s) - 1)) ELSE s

\* str.strip()
Strip(s) == RStrip(LStrip(s))

\* '--' * n
RECURSIVE Rep(_, _)
Rep(a, n) == IF n <= 0 THEN <<>> ELSE <<a>> \o Rep(a, n - 1)

\* content.replace(a, b)
Replace(s, a, b) == [i \in 1..Len(s) |-> IF s[i] = a THEN b ELSE s[i]]

IsPrefix(s, t) == Len(s) <= Len(t) /\ SubSeq(t, 1, Len(s)) = s

\* ------------------------------------------------------------------ data

\* os.path.abspath(sys.argv[0])
script_name == <<"/p/wedgiebar.py">>

\* the bound methods registered as callables; the last two are the
\* networking callables the constructor registers for the ini sections
Callables == {"f", "g", "ssh_tunnel_custom", "port_redirect_custom"}

\* config.menu_networking.configs in file order: section -> dict (the fields
\* the registry reads; name <<>> stands for a section without a name key)
NetworkingConfigs ==
    << [section |-> <<"t", "1">>, type |-> "ssh", name |-> <<"a">>],
       [section |-> <<"a", "-", "b">>, type |-> "ssh", name |-> <<>>],
       [section |-> <<"x">>, type |-> "redirect", name |-> <<"b">>] >>

ActionObject(id, name, action) == [id |-> id, name |-> name, action |-> action]

\* the registry instance together with the class-level shortcut table
Registry == [menu_output |-> menu_output, action_list |-> action_list,
             reserved |-> reserved_keyboard_shortcuts]

\* ------------------------------------------------------------------ menu buffer

\* the mutant of print_in_menu: the line is put in front of the buffer
print_in_menu_prepend(buf, msg) == msg \o <<"\n">> \o buf

\* self.menu_output += f"{msg}\n"
print_in_menu(buf, msg) == buf \o msg \o <<"\n">>

\* _divider_line = "---" + "--" * menu_depth
add_menu_divider_line(buf, menu_depth) ==
    print_in_menu(buf, <<"---">> \o Rep("--", menu_depth))

\* add_menu_section: the label gets the colour unless it carries one, then a
\* divider line and the label line are printed
add_menu_section(buf, label, menu_depth, text_color) ==
    LET has_color == \E i \in 1..(Len(label) - 1) : label[i] = " " /\ label[i + 1] = "color="
        lab == IF text_color # <<>> /\ ~has_color
               THEN label \o <<"|", " ", "color=">> \o text_color
               ELSE label
    IN print_in_menu(add_menu_divider_line(buf, menu_depth), Rep("--", menu_depth) \o lab)

\* set_status_bar_display
set_status_bar_display(buf, style, label, color) ==
    LET l0 == IF style = "logo" THEN <<>> ELSE label
        l1 == IF style # "custom" THEN l0 \o <<"|">> ELSE l0
        l2 == IF style # "custom" /\ style \in {"logo", "both"}
              THEN l1 \o <<" ", "image=LOGO">> ELSE l1
        l3 == IF style # "custom" /\ style \in {"text", "both"}
              THEN l2 \o <<" ", "color=">> \o color ELSE l2
    IN print_in_menu(buf, l3)

\* ------------------------------------------------------------------ make_action

\* the arguments of one make_action call (<<>> stands for None or "")
MakeActionArgs(name, action, action_id, depth, alternate, terminal, color, key) ==
    [name |-> name, action |-> action, action_id |-> action_id, menu_depth |-> depth,
     alternate |-> alternate, terminal |-> terminal, text_color |-> color,
     keyboard_shortcut |-> key]

\* if not action_id: action_id = re.sub(r'\W', "_", name)
make_action_id(a) == IF a.action_id # <<>> THEN a.action_id ELSE Sanitize(a.name)

\* the mutant of make_action_line: terminal= comes before param1=
make_action_line_terminal_first(a) ==
    LET l0 == IF a.menu_depth # 0
              THEN Rep("--", a.menu_depth) \o <<" ">> \o a.name
              ELSE a.name
        s1 == IF a.alternate THEN <<" ", "alternate=true">> ELSE <<>>
        s2 == IF a.keyboard_shortcut # <<>>
              THEN s1 \o <<" ", "|", " ", "key=">> \o a.keyboard_shortcut
              ELSE s1
        l1 == l0 \o <<" ", "|", " ">> \o s2
    IN IF a.action = None
       THEN IF a.text_color # <<>> THEN l1 \o <<" ", "color=">> \o a.text_color ELSE l1
       ELSE l1 \o <<" ", "|", " ", "bash=\"">> \o script_name
               \o <<"\"", " ", "|", " ", "terminal=", IF a.terminal THEN "true" ELSE "false">>
               \o <<" ", "|", " ", "param1=\"">> \o make_action_id(a) \o <<"\"">>

\* the menu line make_action builds
make_action_line(a) ==
    LET l0 == IF a.menu_depth # 0
              THEN Rep("--", a.menu_depth) \o <<" ">> \o a.name
              ELSE a.name
        s1 == IF a.alternate THEN <<" ", "alternate=true">> ELSE <<>>
        s2 == IF a.keyboard_shortcut # <<>>
              THEN s1 \o <<" ", "|", " ", "key=">> \o a.keyboard_shortcut
              ELSE s1
        l1 == l0 \o <<" ", "|", " ">> \o s2
    IN IF a.action = None
       THEN IF a.text_color # <<>> THEN l1 \o <<" ", "color=">> \o a.text_color ELSE l1
       ELSE l1 \o <<" ", "|", " ", "bash=\"">> \o script_name
               \o <<"\"", " ", "|", " ", "param1=\"">> \o make_action_id(a)
               \o <<"\"", " ", "|", " ", "terminal=", IF a.terminal THEN "true" ELSE "false">>

\* dict[key] = value
Put(d, k, v) == [x \in DOMAIN d \cup {k} |-> IF x = k THEN v ELSE d[x]]

\* the mutant of make_action: the duplicate shortcut is detected only after
\* the line was printed and the action stored
make_action_late_check(reg, a) ==
    LET key == a.keyboard_shortcut
        dup == key # <<>> /\ key \in DOMAIN reg.reserved
        id  == make_action_id(a)
    IN [menu_output |-> print_in_menu(reg.menu_output, make_action_line(a)),
        action_list |-> IF a.action = None THEN reg.action_list
                        ELSE Put(reg.action_list, id, ActionObject(id, a.name, a.action)),
        reserved |-> IF key # <<>> /\ ~dup THEN Put(reg.reserved, key, a.name)
                     ELSE reg.reserved,
        raised |-> IF dup THEN "ValueError" ELSE None]

\* the mutant of make_action: an entry without callable is stored in the
\* action map like any other
make_action_registers_placeholder(reg, a) ==
    LET key == a.keyboard_shortcut
        id  == make_action_id(a)
    IN IF key # <<>> /\ key \in DOMAIN reg.reserved
       THEN [menu_output |-> reg.menu_output, action_list |-> reg.action_list,
             reserved |-> reg.reserved, raised |-> "ValueError"]
       ELSE [menu_output |-> print_in_menu(reg.menu_output, make_action_line(a)),
             action_list |-> Put(reg.action_list, id, ActionObject(id, a.name, a.action)),
             reserved |-> IF key # <<>> THEN Put(reg.reserved, key, a.name)
                          ELSE reg.reserved,
             raised |-> None]

\* the mutant of make_action: an identifier the map holds keeps its action
make_action_first_wins(reg, a) ==
    LET key == a.keyboard_shortcut
        id  == make_action_id(a)
    IN IF key # <<>> /\ key \in DOMAIN reg.reserved
       THEN [menu_output |-> reg.menu_output, action_list |-> reg.action_list,
             reserved |-> reg.reserved, raised |-> "ValueError"]
       ELSE [menu_output |-> print_in_menu(reg.menu_output, make_action_line(a)),
             action_list |-> IF a.action = None \/ id \in DOMAIN reg.action_list
                             THEN reg.action_list
                             ELSE Put(reg.action_list, id, ActionObject(id, a.name, a.action)),
             reserved |-> IF key # <<>> THEN Put(reg.reserved, key, a.name)
                          ELSE reg.reserved,
             raised |-> None]

\* make_action(name, action, ...) on the registry reg: the registry after the
\* call and the exception raised, if any
make_action(reg, a) ==
    LET key == a.keyboard_shortcut
        id  == make_action_id(a)
    IN IF key # <<>> /\ key \in DOMAIN reg.reserved
       THEN [menu_output |-> reg.menu_output, action_list |-> reg.action_list,
             reserved |-> reg.reserved, raised |-> "ValueError"]
       ELSE [menu_output |-> print_in_menu(reg.menu_output, make_action_line(a)),
             action_list |-> IF a.action = None THEN reg.action_list
                             ELSE Put(reg.action_list, id, ActionObject(id, a.name, a.action)),
             reserved |-> IF key # <<>> THEN Put(reg.reserved, key, a.name)
                          ELSE reg.reserved,
             raised |-> None]

\* ------------------------------------------------------------------ networking menu

\* check_for_custom_networking_configs: one (name, id) pair per ini section of
\* type ssh or redirect, appended to the class-level lists
RECURSIVE custom_configs(_, _, _)
custom_configs(cfgs, type, prefix) ==
    IF cfgs = <<>> THEN <<>>
    ELSE LET c == Head(cfgs)
             nm == IF type = "ssh" /\ c.name = <<>> THEN c.section ELSE c.name
         IN (IF c.type = type THEN << <<nm, <<prefix>> \o c.section>> >> ELSE <<>>)
            \o custom_configs(Tail(cfgs), type, prefix)

\* for _config in configs: self.make_action(_config[0], callable, terminal=True,
\*                                          action_id=_config[1])
CustomArgs(cfg, callable) ==
    MakeActionArgs(cfg[1], callable, cfg[2], 1, FALSE, TRUE, <<>>, <<>>)

RECURSIVE make_custom_actions(_, _, _)
make_custom_actions(reg, cfgs, callable) ==
    IF cfgs = <<>> THEN reg
    ELSE make_custom_actions(make_action(reg, CustomArgs(Head(cfgs), callable)),
                             Tail(cfgs), callable)

\* the tail of Actions.__init__: the "Port Redirection" and "SSH Tunnels
\* (custom)" blocks
add_custom_networking_actions(reg, redirects, tunnels) ==
    LET r1 == [reg EXCEPT !.menu_output = print_in_menu(@, <<"Port", " ", "Redirection">>)]
        r2 == make_custom_actions(r1, redirects, "port_redirect_custom")
        r3 == [r2 EXCEPT !.menu_output =
                   print_in_menu(@, <<"SSH", " ", "Tunnels", " ", "(custom)">>)]
    IN make_custom_actions(r3, tunnels, "ssh_tunnel_custom")

\* ------------------------------------------------------------------ the call log

\* one entry of calls: the call, the text it appended to the menu, and for a
\* make_action with a callable the identifier it stored
Call(op, a, text, raised) ==
    [op |-> op, name |-> a.name, action |-> a.action,
     id |-> IF a.action # None /\ raised = None THEN make_action_id(a) ELSE <<>>,
     auto |-> a.action_id = <<>>, key |-> a.keyboard_shortcut,
     depth |-> a.menu_depth, alternate |-> a.alternate, terminal |-> a.terminal,
     text |-> text, raised |-> raised]

NoArgs == MakeActionArgs(<<>>, None, <<>>, 0, FALSE, FALSE, <<>>, <<>>)

PlainCall(op, text) == Call(op, NoArgs, text, None)

MakeActionCall(a, raised) ==
    Call("make_action", a, IF raised = None THEN make_action_line(a) \o <<"\n">> ELSE <<>>,
         raised)

RECURSIVE CustomCalls(_, _)
CustomCalls(cfgs, callable) ==
    IF cfgs = <<>> THEN <<>>
    ELSE <<MakeActionCall(CustomArgs(Head(cfgs), callable), None)>>
         \o CustomCalls(Tail(cfgs), callable)

\* ------------------------------------------------------------------ dispatch

Event(ev, what) == [ev |-> ev, what |-> what]

ReturnOutcome == [kind |-> "return", type |-> None, code |-> "0"]

\* how the invoked callable ends: it returns, raises an Exception subclass,
\* is interrupted (KeyboardInterrupt) or exits by itself (sys.exit)
Outcomes ==
    { [kind |-> "return", type |-> None, code |-> "0"],
      [kind |-> "Exception", type |-> "ValueError", code |-> "1"],
      [kind |-> "KeyboardInterrupt", type |-> "KeyboardInterrupt", code |-> "1"],
      [kind |-> "SystemExit", type |-> "SystemExit", code |-> "0"],
      [kind |-> "SystemExit", type |-> "SystemExit", code |-> "1"] }

\* display_notification: the osascript notification with the quotes escaped
display_notification(content) == <<Event("notify", Replace(content, "\"", "\\\""))>>

\* the mutant of display_notification_error: the sys.exit(1) is missing
display_notification_error_no_exit(content, error_prefix, print_stderr) ==
    <<Event("beep", <<>>)>>
    \o display_notification(error_prefix \o Replace(content, "\"", "'"))

\* display_notification_error: beep, notification, sys.exit(1)
display_notification_error(content, error_prefix, print_stderr) ==
    LET c == Replace(content, "\"", "'")
        e == error_prefix \o c
    IN <<Event("beep", <<>>)>>
       \o (IF print_stderr THEN <<Event("stdout", <<"\n">> \o e \o <<"\n", "\n">>)>> ELSE <<>>)
       \o display_notification(e)
       \o <<Event("exit", <<"1">>)>>

\* write_clipboard(text, skip_notification=True)
write_clipboard(text) == <<Event("clipboard", text)>>

\* the clipboard after the effects ev: what the last clipboard.copy put there
RECURSIVE ClipboardAfter(_, _)
ClipboardAfter(clip, ev) ==
    IF ev = <<>> THEN clip
    ELSE ClipboardAfter(IF Head(ev).ev = "clipboard" THEN Head(ev).what ELSE clip, Tail(ev))

\* the mutant of fail_action_with_exception: the notification (and with it
\* the exit) comes before the clipboard write
fail_action_notify_first(type) ==
    display_notification_error(
        <<"Failed with an exception (", type, "): check traceback in clipboard">>, <<>>, FALSE)
    \o write_clipboard(<<"traceback">>)

\* fail_action_with_exception(exception=err)
fail_action_with_exception(type) ==
    write_clipboard(<<"traceback">>)
    \o display_notification_error(
          <<"Failed with an exception (", type, "): check traceback in clipboard">>,
          <<>>, FALSE)

\* print(self.menu_output.strip())
print_menu_output(buf) == <<Event("stdout", Strip(buf) \o <<"\n">>)>>

\* how the callable ends, and what execute_plugin does about it: only an
\* Exception subclass is caught (except Exception)
callable_ends(outcome) ==
    CASE outcome.kind = "return" -> <<Event("return", <<>>)>>
      [] outcome.kind = "Exception" ->
            <<Event("raised", <<outcome.type>>)>> \o fail_action_with_exception(outcome.type)
      [] outcome.kind = "KeyboardInterrupt" -> <<Event("interrupt", <<>>)>>
      [] outcome.kind = "SystemExit" -> <<Event("exit", <<outcome.code>>)>>

\* the mutant of execute_plugin: an identifier the registry does not hold
\* is not rejected, the menu is printed instead
execute_plugin_lenient(reg, action, outcome) ==
    IF action = <<>> \/ Sanitize(action) \notin DOMAIN reg.action_list
    THEN print_menu_output(reg.menu_output)
    ELSE <<Event("invoke", <<reg.action_list[Sanitize(action)].action>>)>>
         \o callable_ends(outcome)

\* execute_plugin(action): the effects, up to the point where it returns or
\* an exception leaves it
execute_plugin(reg, action, outcome) ==
    IF action = <<>> THEN print_menu_output(reg.menu_output)
    ELSE LET id == Sanitize(action)
         IN IF id \notin DOMAIN reg.action_list
            THEN <<Event("uncaught", <<"Exception", ":", " ", "Not a valid action">>)>>
            ELSE <<Event("invoke", <<reg.action_list[id].action>>)>> \o callable_ends(outcome)

\* the order of sorted() on the identifiers: the code point of an atom's
\* first character
Code == [c \in {" ", "-", "1", ":", "_", "a", "b", "port_redirect_custom_",
                "ssh_tunnel_custom_", "t", "x", "z"} |->
            CASE c = " " -> 32 [] c = "-" -> 45 [] c = "1" -> 49 [] c = ":" -> 58
              [] c = "_" -> 95 [] c = "a" -> 97 [] c = "b" -> 98
              [] c = "port_redirect_custom_" -> 112 [] c = "ssh_tunnel_custom_" -> 115
              [] c = "t" -> 116 [] c = "x" -> 120 [] c = "z" -> 122]

RECURSIVE LexLess(_, _)
LexLess(s, t) ==
    IF t = <<>> THEN FALSE
    ELSE IF s = <<>> THEN TRUE
    ELSE IF Head(s) = Head(t) THEN LexLess(Tail(s), Tail(t))
    ELSE Code[Head(s)] < Code[Head(t)]

RECURSIVE Sorted(_)
Sorted(S) ==
    IF S = {} THEN <<>>
    ELSE LET m == CHOOSE x \in S : \A y \in S \ {x} : LexLess(x, y)
         IN <<m>> \o Sorted(S \ {m})

\* main, args.list_actions: one print per identifier in sorted order, then exit(0)
RECURSIVE list_actions(_, _)
list_actions(reg, ids) ==
    IF ids = <<>> THEN <<Event("exit", <<"0">>)>>
    ELSE LET o == reg.action_list[Head(ids)]
         IN <<Event("stdout", o.name \o <<":", "\n", "\t", "ID:", " ">> \o o.id
                              \o <<"\n", "\t", "Action:", " ", "Actions.", o.action,
                                   "\n", "\n">>)>>
            \o list_actions(reg, Tail(ids))

\* the mutant of main: the exit(0) after the listing is missing, so main goes
\* on to execute_plugin
main_list_falls_through(reg, args, outcome) ==
    (IF args.list_actions
     THEN SubSeq(list_actions(reg, Sorted(DOMAIN reg.action_list)), 1,
                 Cardinality(DOMAIN reg.action_list))
     ELSE <<>>)
    \o execute_plugin(reg, IF args.given THEN args.action ELSE <<>>, ReturnOutcome)

\* main() after the registry is built, and the __main__ guard around it:
\* KeyboardInterrupt is caught there and ends the process with exit(1)
main(reg, args, outcome) ==
    LET ev == IF args.list_actions
              THEN list_actions(reg, Sorted(DOMAIN reg.action_list))
              ELSE execute_plugin(reg, IF args.given THEN args.action ELSE <<>>, outcome)
    IN IF ev # <<>> /\ ev[Len(ev)].ev = "interrupt"
       THEN ev \o <<Event("stdout", <<"\n", "Control-C Pressed; stopping...", "\n">>),
                    Event("exit", <<"1">>)>>
       ELSE ev

\* the exit status of the process, from the way main ended: an explicit exit,
\* an exception nobody caught (status 1), or a normal return (status 0)
ExitStatus(ev) ==
    IF ev = <<>> THEN "0"
    ELSE LET l == ev[Len(ev)]
         IN IF l.ev = "exit" THEN l.what[1]
            ELSE IF l.ev = "uncaught" THEN "1"
            ELSE "0"

\* ------------------------------------------------------------------ tunnel manager

\* One line of the "ps -ef" listing, by what the code's patterns read in it:
\*   cols   the line starts with two numeric columns (pid_pattern matches),
\*          pid being the second
\*   ssh    'ssh' occurs in the line;  L  '-L' occurs in the line
\*   colon  ':' occurs in the line (the time columns of every process line)
\*   la, lp the bind address and port of the forward "la:lp:host:port"
\*          ("" when the line has none)
\*   hp     how many host:port tokens r"[^\s:]+:\d+(?=:|\s)" finds
\*   f      "-f <server>" occurs (r'-f +(\S+)' finds something)
PsLine(pid, k) ==
    [pid |-> pid, kind |-> k.kind, cols |-> k.cols, ssh |-> k.ssh, L |-> k.L,
     colon |-> k.colon, la |-> k.la, lp |-> k.lp, hp |-> k.hp, f |-> k.f]

Kind(kind, cols, ssh, L, colon, la, lp, hp, f) ==
    [kind |-> kind, cols |-> cols, ssh |-> ssh, L |-> L, colon |-> colon,
     la |-> la, lp |-> lp, hp |-> hp, f |-> f]

\* ssh <options> -Y -L la:lp:10.0.0.5:443 -N -f user@jump -p 22
\* (the command do_execute_ssh_tunnel launches)
Forward(la, lp) == Kind("forward", TRUE, TRUE, TRUE, TRUE, la, lp, 2, TRUE)

\* the lines a listing is made of
PsKinds ==
    { \* "  UID   PID  PPID   C STIME   TTY   TIME CMD"
      Kind("header", FALSE, FALSE, FALSE, FALSE, "", "", 0, FALSE),
      \* /usr/sbin/sshd
      Kind("sshd", TRUE, TRUE, FALSE, TRUE, "", "", 0, FALSE),
      Forward("127.0.0.2", "8443"),
      Forward("127.0.0.3", "8080"),
      \* ssh -L 127.0.0.2:8443:10.0.0.5:443 user@jump   (in the foreground, no -f)
      Kind("foreground", TRUE, TRUE, TRUE, TRUE, "127.0.0.2", "8443", 2, FALSE),
      \* ssh -L 8443:10.0.0.5:443 -N -f user@jump        (no bind address)
      Kind("nobind", TRUE, TRUE, TRUE, TRUE, "", "", 1, TRUE) }

\* specific_loopback in _line, for specific_loopback = ip + ":" [+ port + ":"]
specific_loopback_in(l, ip, port) ==
    IF ip # "" THEN l.la = ip /\ (port = "" \/ l.lp = port)
    ELSE IF port # "" THEN l.la # "" /\ l.lp = port
    ELSE l.colon

\* the condition of the comprehension that builds tunnel_PIDs
tunnel_line(l, ip, port) ==
    l.ssh /\ l.L /\ l.cols /\ specific_loopback_in(l, ip, port)

RECURSIVE Filter(_, _, _)
Filter(ls, ip, port) ==
    IF ls = <<>> THEN <<>>
    ELSE (IF tunnel_line(Head(ls), ip, port) THEN <<Head(ls)>> ELSE <<>>)
         \o Filter(Tail(ls), ip, port)

\* the result of a handler: its effects in order, the exception that left
\* it (None when it returned), the pids whose kill succeeded
Result(ev, raised, killed) == [ev |-> ev, raised |-> raised, killed |-> killed]

Cmd(words) == Event("cmd", words)

\* Reusable.do_prompt_for_sudo: sudo -v, checked
do_prompt_for_sudo(env) ==
    Result(<<Cmd(<<"sudo", "-v">>)>>,
           IF env.sudo_ok THEN None ELSE "CalledProcessError", {})

\* r then, unless r raised, s
Then(r, s) ==
    IF r.raised # None THEN r
    ELSE Result(r.ev \o s.ev, s.raised, r.killed \cup s.killed)

\* the mutant of kill_loop: the loop stops after the first process
kill_loop_first_only(ls, env) ==
    IF ls = <<>> THEN Result(<<>>, None, {})
    ELSE Result(<<Event("stdout", <<"Killing", ToString(Head(ls).pid)>>),
                  Cmd(<<"sudo", "kill", "-9", ToString(Head(ls).pid)>>)>>,
                None, {Head(ls).pid})

\* for PID in tunnel_PIDs: the two host:port tokens and the server are read
\* from the line (ValueError when fewer than two tokens are found, IndexError
\* without "-f <server>"), the message is printed, then sudo kill -9 PID runs,
\* checked: a kill that fails raises
RECURSIVE kill_loop(_, _)
kill_loop(ls, env) ==
    IF ls = <<>> THEN Result(<<>>, None, {})
    ELSE LET l == Head(ls)
             kill == Cmd(<<"sudo", "kill", "-9", ToString(l.pid)>>)
         IN IF l.hp < 2 THEN Result(<<>>, "ValueError", {})
            ELSE IF ~l.f THEN Result(<<>>, "IndexError", {})
            ELSE IF l.pid \in env.kill_fails
            THEN Result(<<Event("stdout", <<"Killing", ToString(l.pid)>>), kill>>,
                        "CalledProcessError", {})
            ELSE Then(Result(<<Event("stdout", <<"Killing", ToString(l.pid)>>), kill>>,
                             None, {l.pid}),
                      kill_loop(Tail(ls), env))

\* the mutant of do_terminate_tunnels: sudo is asked for before the listing
\* is looked at
do_terminate_tunnels_prompt_first(procs, ip, port, env) ==
    LET found == Filter(procs, ip, port)
        ps    == Result(<<Cmd(<<"ps", "-ef">>)>>, None, {})
    IN Then(ps, Then(do_prompt_for_sudo(env),
       IF found = <<>>
       THEN Result(<<Event("stdout", <<"No existing SSH tunnels found">>)>>
                   \o display_notification(<<"No existing SSH tunnels found">>), None, {})
       ELSE Then(kill_loop(found, env),
                 Result(display_notification(<<"Tunnels terminated">>), None, {}))))

\* do_terminate_tunnels(loopback_ip, loopback_port) on the listing procs
do_terminate_tunnels(procs, ip, port, env) ==
    LET found == Filter(procs, ip, port)
        ps    == Result(<<Cmd(<<"ps", "-ef">>)>>, None, {})
    IN IF found = <<>>
       THEN Then(ps, Result(<<Event("stdout", <<"No existing SSH tunnels found">>)>>
                            \o display_notification(<<"No existing SSH tunnels found">>),
                            None, {}))
       ELSE Then(ps, Then(do_prompt_for_sudo(env),
                     Then(kill_loop(found, env),
                          Result(display_notification(<<"Tunnels terminated">>), None, {}))))

\* the integer 22 that "config_dict.get('ssh_port') or 22" puts in the place
\* of a missing port; every value read from the ini file is a string
DefaultSshPort == "int:22"

\* the values int() accepts, with their value
IntOf ==
    [v \in {"-1", "0", "22", "80", "443", "2222", "8080", "8443", DefaultSshPort} |->
        CASE v = "-1" -> -1 [] v = "0" -> 0 [] v = "22" -> 22 [] v = "80" -> 80
          [] v = "443" -> 443 [] v = "2222" -> 2222 [] v = "8080" -> 8080
          [] v = "8443" -> 8443 [] v = DefaultSshPort -> 22]

\* f"{port}"
PortText(v) == IF v = DefaultSshPort THEN "22" ELSE v

\* re.match(r'^127\..*', address)
IsLoopback(address) == address \in {"127.0.0.1", "127.0.0.2", "127.0.0.3"}

\* assert value, message  /  assert int(value), message: the exception of the
\* first check that fails, None when all pass
RECURSIVE first_failure(_)
first_failure(checks) ==
    IF checks = <<>> THEN None
    ELSE LET c == Head(checks)
         IN IF c.kind = "present" /\ c.value = "" THEN "AssertionError"
            ELSE IF c.kind = "int" /\ c.value \notin DOMAIN IntOf THEN "ValueError"
            ELSE IF c.kind = "int" /\ IntOf[c.value] = 0 THEN "AssertionError"
            ELSE IF c.kind = "holds" /\ c.value = "no" THEN "AssertionError"
            ELSE first_failure(Tail(checks))

Check(kind, value) == [kind |-> kind, value |-> value]

\* the message of the assert that fails first: None when all pass and when
\* it is int() that raises (a ValueError, which carries no message of the
\* program)
assert_message(checks, messages) ==
    LET failing == {k \in 1..Len(checks) : first_failure(<<checks[k]>>) # None}
    IN IF failing = {} THEN None
       ELSE LET k == CHOOSE k \in failing : \A j \in failing : k <= j
            IN IF first_failure(<<checks[k]>>) = "ValueError" THEN None ELSE messages[k]

\* the locals do_execute_ssh_tunnel reads from config_dict
ssh_server_port(c) == IF c.ssh_port # "" THEN c.ssh_port ELSE DefaultSshPort
local_port(c) == IF c.local_port # "" THEN c.local_port ELSE c.remote_port

\* the asserts at the head of do_verify_loopback_address, and their messages
loopback_checks(ip) ==
    <<Check("present", ip),
      Check("holds", IF IsLoopback(ip) THEN "yes" ELSE "no"),
      Check("holds", IF ip # "127.0.0.1" THEN "yes" ELSE "no")>>

loopback_messages ==
    <<"No loopback address provided",
      "Invalid loopback address",
      "Custom loopback IP is required">>

\* the mutant of do_verify_loopback_address: the address is not looked at
do_verify_loopback_address_unchecked(ip, ifaces, env) ==
    Then(Result(<<Cmd(<<"ifconfig", "-a">>)>>, None, {}),
         IF ip \in ifaces THEN Result(<<>>, None, {})
         ELSE Then(do_prompt_for_sudo(env),
                   Result(<<Cmd(<<"sudo", "ifconfig", "lo0", "alias", "$", ip>>)>>,
                          "CalledProcessError", {})))

\* do_verify_loopback_address(loopback_ip): the three asserts, ifconfig -a,
\* and when the alias is missing the sudo prompt and the alias command, whose
\* address argument the f-string writes as "$" followed by the address;
\* ifconfig rejects such an argument and the checked command raises
do_verify_loopback_address(ip, ifaces, env) ==
    LET failed == first_failure(loopback_checks(ip))
    IN IF failed # None THEN Result(<<>>, failed, {})
       ELSE Then(Result(<<Cmd(<<"ifconfig", "-a">>)>>, None, {}),
                 IF ip \in ifaces THEN Result(<<>>, None, {})
                 ELSE Then(do_prompt_for_sudo(env),
                           Result(<<Cmd(<<"sudo", "ifconfig", "lo0", "alias", "$", ip>>)>>,
                                  "CalledProcessError", {})))

\* "-i" in ssh_options, for options made of the words the model draws from
HasIdentity(opts) == \E i \in 1..Len(opts) : opts[i] = "-i"

\* the options in front of -Y: the default key and StrictHostKeyChecking=no
\* when the config gives none, the config's own with the default key put in
\* front when they name no key, the config's own otherwise
ssh_options(c) ==
    IF c.ssh_options = <<>> THEN <<"-i", "key", "-o", "StrictHostKeyChecking=no">>
    ELSE IF ~HasIdentity(c.ssh_options) THEN <<"-i", "key">> \o c.ssh_options
    ELSE c.ssh_options

\* the mutant of ssh_command: the remote end comes first in the forward
ssh_command_remote_first(c) ==
    <<"ssh">> \o ssh_options(c) \o
    <<"-Y", "-L", c.remote_ip, ":", c.remote_port, ":", c.local_address, ":", local_port(c),
      "-N", "-f", "user", "@", c.ssh_server, "-p", PortText(ssh_server_port(c))>>

\* the ssh command line
ssh_command(c) ==
    <<"ssh">> \o ssh_options(c) \o
    <<"-Y", "-L", c.local_address, ":", local_port(c), ":", c.remote_ip, ":", c.remote_port,
      "-N", "-f", "user", "@", c.ssh_server, "-p", PortText(ssh_server_port(c))>>

\* the mutant of tunnel_checks: the remote address is not looked at
tunnel_checks_no_remote_address(c) ==
    <<Check("present", c.name),
      Check("present", c.ssh_server),
      Check("present", ssh_server_port(c)),
      Check("int", ssh_server_port(c)),
      Check("present", c.remote_port),
      Check("present", c.remote_port),
      Check("int", c.remote_port),
      Check("present", c.local_address),
      Check("present", local_port(c)),
      Check("int", local_port(c)),
      Check("holds", IF ssh_server_port(c) # DefaultSshPort \/ ~IsLoopback(c.ssh_server)
                     THEN "yes" ELSE "no")>>

\* the asserts at the head of do_execute_ssh_tunnel, in their order
tunnel_checks(c) ==
    <<Check("present", c.name),
      Check("present", c.ssh_server),
      Check("present", ssh_server_port(c)),
      Check("int", ssh_server_port(c)),
      Check("present", c.remote_ip),
      Check("present", c.remote_port),
      Check("int", c.remote_port),
      Check("present", c.local_address),
      Check("present", local_port(c)),
      Check("int", local_port(c)),
      Check("holds", IF ssh_server_port(c) # DefaultSshPort \/ ~IsLoopback(c.ssh_server)
                     THEN "yes" ELSE "no")>>

\* the messages of those asserts
tunnel_messages ==
    <<"Error: SSH config must be given a name",
      "Error: SSH server address not provided",
      "Error: SSH port for SSH tunnel not provided",
      "Error: SSH port for SSH tunnel is not a number",
      "Error: Remote address for SSH tunnel not provided",
      "Error: Remote port for SSH tunnel not provided",
      "Error: Remote port for SSH tunnel is not a number",
      "Error: Loopback address not provided",
      "Error: Loopback port not provided",
      "Error: Loopback port for SSH tunnel is not a number",
      "Error: SSH server is a loopback IP, and the port is left at 22">>

\* the message of the AssertionError that leaves do_execute_ssh_tunnel
\* before its first command, None when none does
tunnel_assert_message(c) ==
    IF first_failure(tunnel_checks(c)) # None
    THEN assert_message(tunnel_checks(c), tunnel_messages)
    ELSE assert_message(loopback_checks(c.local_address), loopback_messages)

\* the mutant of tunnel_steps: ssh is launched before the existing tunnels
\* are looked for
tunnel_steps_launch_first(c, procs, ifaces, env) ==
    Then(do_verify_loopback_address(c.local_address, ifaces, env),
    Then(Result(<<Cmd(ssh_command(c))>>,
                IF env.ssh_ok THEN None ELSE "CalledProcessError", {}),
         do_terminate_tunnels(procs, c.local_address, local_port(c), env)))

\* the steps of do_execute_ssh_tunnel after the asserts
tunnel_steps(c, procs, ifaces, env) ==
    Then(do_verify_loopback_address(c.local_address, ifaces, env),
    Then(Result(<<Event("stdout", <<"Checking for existing tunnels">>)>>, None, {}),
    Then(do_terminate_tunnels(procs, c.local_address, local_port(c), env),
    Then(IF IntOf[local_port(c)] <= 1023
         THEN Then(do_prompt_for_sudo(env),
                   Result(<<Cmd(<<"sudo">> \o ssh_command(c))>>, None, {}))
         ELSE Result(<<Cmd(ssh_command(c))>>, None, {}),
         Result(<<>>, IF env.ssh_ok THEN None ELSE "CalledProcessError", {})))))

\* the mutant of do_execute_ssh_tunnel: the loopback alias is verified and
\* the existing tunnels are cleared before the fields are checked
do_execute_ssh_tunnel_checks_late(c, procs, ifaces, env) ==
    IF c.local_address = "" \/ local_port(c) \notin DOMAIN IntOf
    THEN Result(<<>>, "AssertionError", {})
    ELSE LET r == tunnel_steps(c, procs, ifaces, env)
         IN IF r.raised = None /\ first_failure(tunnel_checks(c)) # None
            THEN Result(r.ev, first_failure(tunnel_checks(c)), r.killed)
            ELSE r

\* do_execute_ssh_tunnel(config_dict)
do_execute_ssh_tunnel(c, procs, ifaces, env) ==
    IF first_failure(tunnel_checks(c)) # None
    THEN Result(<<>>, first_failure(tunnel_checks(c)), {})
    ELSE tunnel_steps(c, procs, ifaces, env)

\* ------------------------------------------------------------------ port redirects

\* the four variables port_redirect_custom reads with get_var, in its order
RedirectVars == <<"source_address", "source_port", "target_address", "target_port">>

\* get_var(var_name): (config_dict.get(var_name) or "").strip()
get_var(c, var_name) == Strip(c[var_name])

\* the first variable get_var finds missing: 0 when there is none
RECURSIVE first_missing(_, _)
first_missing(c, k) ==
    IF k > Len(RedirectVars) THEN 0
    ELSE IF get_var(c, RedirectVars[k]) = <<>> THEN k
    ELSE first_missing(c, k + 1)

\* a value as one word
Word(v) == IF Len(v) = 1 THEN v[1] ELSE ""

\* an error that ends the process: display_notification_error(content,
\* print_stderr=True)
fatal(content) ==
    Result(display_notification_error(content, <<"Failed with error:", " ">>, TRUE),
           "SystemExit", {})

\* do_execute_port_redirect: the alias is verified, the rule is handed to
\* pfctl through a shell pipe whose status nobody looks at, the result is
\* printed and notified
do_execute_port_redirect(sa, sp, ta, tp, ifaces, env) ==
    Then(do_verify_loopback_address(sa, ifaces, env),
         Result(<<Cmd(<<"sh", "-c", "echo", "rdr pass inet proto tcp from any to", sa,
                        "port", sp, "->", ta, "port", tp, "|", "sudo", "pfctl", "-ef", "-">>),
                  Event("stdout", <<"Port Redirection Enabled:">>)>>
                \o display_notification(<<"Port Redirection Enabled:", "\n", "\n", sa, ":", sp,
                                          " ", "-->", " ", ta, ":", tp>>),
                None, {}))

\* what port_redirect_custom does once the four variables are read
redirect_steps(c, ifaces, env) ==
    Then(do_prompt_for_sudo(env),
    Then(IF c.name = "" THEN Result(<<>>, "KeyError", {})
         ELSE Result(<<Event("stdout", <<"Setting up redirection for config", " ", c.name>>)>>,
                     None, {}),
    Then(do_execute_port_redirect(Word(get_var(c, "source_address")),
                                  Word(get_var(c, "source_port")),
                                  Word(get_var(c, "target_address")),
                                  Word(get_var(c, "target_port")), ifaces, env),
         Result(<<Event("stdout", <<"Done. You may close the terminal.">>)>>, None, {}))))

\* the mutant of port_redirect_custom: the variables are looked at after the
\* sudo prompt
port_redirect_custom_prompt_first(c, ifaces, env) ==
    IF ~c.found
    THEN fatal(<<"Port redirect config [", c.section, "] not found">>)
    ELSE Then(do_prompt_for_sudo(env),
              IF first_missing(c, 1) # 0
              THEN fatal(<<"variable", " ", RedirectVars[first_missing(c, 1)], " ",
                           "not found in redirect config">>)
              ELSE redirect_steps(c, ifaces, env))

\* port_redirect_custom() for the section c of the ini file
port_redirect_custom(c, ifaces, env) ==
    IF ~c.found
    THEN fatal(<<"Port redirect config [", c.section, "] not found">>)
    ELSE IF first_missing(c, 1) # 0
    THEN fatal(<<"variable", " ", RedirectVars[first_missing(c, 1)], " ",
                 "not found in redirect config">>)
    ELSE redirect_steps(c, ifaces, env)

\* ------------------------------------------------------------------ clipboard actions

\* read_clipboard(): the text stripped, the carriage returns removed
read_clipboard(clip) == SelectSeq(Strip(clip), LAMBDA a : a # "\r")

\* a JSON value: its type, whether it is truthy, for a string the text it
\* holds, and the text json.dumps writes for it
JsonValue(type, truthy, inner, dumps) ==
    [type |-> type, truthy |-> truthy, inner |-> inner, dumps |-> dumps]

JsonError == JsonValue("error", FALSE, <<>>, <<>>)

\* json.loads(text, strict=False) on the texts of the model; JsonError
\* stands for the ValueError it raises
JsonLoads(t) ==
    CASE t = <<"{", "\"a\":", "1", "}">> -> JsonValue("dict", TRUE, <<>>, <<"{", "\"a\":", "1", "}">>)
      [] t = <<"{", " ", "\"a\":", " ", "1", " ", "}">> ->
             JsonValue("dict", TRUE, <<>>, <<"{", "\"a\":", "1", "}">>)
      [] t = <<"[", "1", "]">> -> JsonValue("list", TRUE, <<>>, <<"[", "1", "]">>)
      [] t = <<"{", "}">> -> JsonValue("dict", FALSE, <<>>, <<"{", "}">>)
      [] t = <<"[", "]">> -> JsonValue("list", FALSE, <<>>, <<"[", "]">>)
      [] t = <<"5">> -> JsonValue("int", TRUE, <<>>, <<"5">>)
      [] t = <<"1700000000">> -> JsonValue("int", TRUE, <<>>, <<"1700000000">>)
      [] t = <<"null">> -> JsonValue("NoneType", FALSE, <<>>, <<"null">>)
      [] t = <<"true">> -> JsonValue("bool", TRUE, <<>>, <<"true">>)
      [] t = <<"\"", "abc", "\"">> -> JsonValue("str", TRUE, <<"abc">>, <<"\"", "abc", "\"">>)
      [] t = <<"\"", "[", "1", "]", "\"">> ->
             JsonValue("str", TRUE, <<"[", "1", "]">>, <<"\"", "[", "1", "]", "\"">>)
      [] t = <<"\"", "5", "\"">> -> JsonValue("str", TRUE, <<"5">>, <<"\"", "5", "\"">>)
      [] OTHER -> JsonError

\* for _try in range(5): a value that is neither dict nor list is decoded
\* again; json.loads of a value that is no string raises TypeError
RECURSIVE decode_again(_, _)
decode_again(new, tries) ==
    IF tries = 0 \/ new.type \in {"dict", "list"} THEN [raised |-> None, value |-> new]
    ELSE IF new.type # "str" THEN [raised |-> "TypeError", value |-> new]
    ELSE IF JsonLoads(new.inner) = JsonError THEN [raised |-> "ValueError", value |-> new]
    ELSE decode_again(JsonLoads(new.inner), tries - 1)

\* the try block of _json_notify_and_exit_when_invalid
json_decode(t) ==
    IF JsonLoads(t) = JsonError THEN [raised |-> "ValueError", value |-> JsonError]
    ELSE decode_again(JsonLoads(t), 5)

\* _input_str[:-1] if _input_str.endswith('%')
strip_percent(t) == IF t # <<>> /\ t[Len(t)] = "%" THEN SubSeq(t, 1, Len(t) - 1) ELSE t

\* _json_notify_and_exit_when_invalid(): the effects, the exception that
\* leaves it (None when it returns) and the value it returns
json_notify_and_exit_when_invalid(clip) ==
    LET d == json_decode(strip_percent(read_clipboard(clip)))
    IN IF d.raised = "TypeError" THEN [ev |-> <<>>, raised |-> "TypeError", value |-> JsonError]
       ELSE IF d.raised = "ValueError" \/ ~d.value.truthy
                \/ d.value.type \notin {"dict", "list"}
       THEN [ev |-> display_notification_error(<<"Invalid JSON !!!!!!!!!!">>,
                                               <<"Failed with error:", " ">>, FALSE),
             raised |-> "SystemExit", value |-> JsonError]
       ELSE [ev |-> <<>>, raised |-> None, value |-> d.value]

\* action_json_validate
action_json_validate(clip) ==
    LET j == json_notify_and_exit_when_invalid(clip)
    IN IF j.raised # None THEN Result(j.ev, j.raised, {})
       ELSE Result(display_notification(<<"Valid JSON, type:", " ", j.value.type>>), None, {})

\* action_json_compact: _process_json_clipboard() with its defaults; notify
\* is config.main.clipboard_update_notifications
action_json_compact(clip, notify) ==
    LET j == json_notify_and_exit_when_invalid(clip)
    IN IF j.raised # None THEN Result(j.ev, j.raised, {})
       ELSE Result(write_clipboard(j.value.dumps)
                   \o (IF notify THEN display_notification(<<"Clipboard updated">>) ELSE <<>>),
                   None, {})

\* float(text) succeeds
IsFloat(t) == t \in {<<"5">>, <<"1700000000">>, <<"1", "700", "000", "000">>, <<"nan">>}

\* action_epoch_time_to_str(update_clipboard): int() of a NaN raises
\* ValueError inside time_epoch_to_str
action_epoch_time_to_str(clip, update_clipboard) ==
    LET t == SelectSeq(read_clipboard(clip), LAMBDA a : a # ",")
    IN IF ~IsFloat(t)
       THEN Result(display_notification_error(
                       <<"\"">> \o t \o <<"\"", " ", "is not a valid number">>,
                       <<"Failed with error:", " ">>, FALSE),
                   "SystemExit", {})
       ELSE IF t = <<"nan">> THEN Result(<<>>, "ValueError", {})
       ELSE Result(display_notification(t \o <<" ", "=", " ", "LOCALTIME">>)
                   \o (IF update_clipboard THEN write_clipboard(<<"LOCALTIME">>) ELSE <<>>),
                   None, {})

\* the try/except of execute_plugin around a callable that ended as r says
run_action(name, r) ==
    <<Event("invoke", <<name>>)>> \o r.ev
    \o (IF r.raised = None THEN <<Event("return", <<>>)>>
        ELSE IF r.raised = "SystemExit" THEN <<>>
        ELSE callable_ends([kind |-> "Exception", type |-> r.raised, code |-> "1"]))

\* ------------------------------------------------------------------ Terminate All

Stdout(text) == Result(<<Event("stdout", <<text>>)>>, None, {})

\* do_terminate_port_redirection: pfctl reloads /etc/pf.conf, checked
do_terminate_port_redirection(reset_ok) ==
    Then(Stdout("Resetting port forwarding/redirection..."),
    Then(Result(<<Cmd(<<"sudo", "pfctl", "-f", "/etc/pf.conf">>)>>,
                IF reset_ok THEN None ELSE "CalledProcessError", {}),
         Result(<<Event("stdout", <<"Port redirection terminated">>)>>
                \o display_notification(<<"Port redirection terminated">>), None, {})))

do_terminate_loopback_aliases == Stdout("Feature not yet enabled")

\* the mutant of action_terminate_all: the redirection is reset before the
\* tunnels are terminated
action_terminate_all_reset_first(procs, env, reset_ok) ==
    Then(do_prompt_for_sudo(env),
    Then(Stdout("Terminating port redirection..."),
    Then(do_terminate_port_redirection(reset_ok),
    Then(Stdout("Terminating all SSH tunnels tunnels..."),
    Then(do_terminate_tunnels(procs, "", "", env),
    Then(Stdout("Terminating all loopback aliases..."),
    Then(do_terminate_loopback_aliases,
    Then(Stdout("Done. You may close the terminal."),
         Result(<<Event("exit", <<"0">>)>>, "SystemExit", {})))))))))

\* action_terminate_all: sys.exit() without an argument ends the process
\* with status 0
action_terminate_all(procs, env, reset_ok) ==
    Then(do_prompt_for_sudo(env),
    Then(Stdout("Terminating all SSH tunnels tunnels..."),
    Then(do_terminate_tunnels(procs, "", "", env),
    Then(Stdout("Terminating port redirection..."),
    Then(do_terminate_port_redirection(reset_ok),
    Then(Stdout("Terminating all loopback aliases..."),
    Then(do_terminate_loopback_aliases,
    Then(Stdout("Done. You may close the terminal."),
         Result(<<Event("exit", <<"0">>)>>, "SystemExit", {})))))))))

\* ------------------------------------------------------------------ run_cli_command

\* A command as the caller passes it: a string or bytes (text is its
\* characters, as atoms) or a list or tuple (parts is its elements, each a
\* text)
StrCommand(type, text) == [type |-> type, text |-> text, parts |-> <<>>]
ListCommand(type, parts) == [type |-> type, text |-> <<>>, parts |-> parts]

\* ','.join(cmd)
RECURSIVE Join(_)
Join(parts) ==
    IF parts = <<>> THEN <<>>
    ELSE IF Len(parts) = 1 THEN parts[1]
    ELSE parts[1] \o <<",">> \o Join(Tail(parts))

\* shlex.split on a text without quotes: the words between the white space
RECURSIVE Split(_, _)
Split(text, word) ==
    IF text = <<>> THEN (IF word = <<>> THEN <<>> ELSE <<word>>)
    ELSE IF Head(text) \in Whitespace
    THEN (IF word = <<>> THEN <<>> ELSE <<word>>) \o Split(Tail(text), <<>>)
    ELSE Split(Tail(text), word \o <<Head(text)>>)

Member(x, seq) == \E i \in 1..Len(seq) : seq[i] = x

\* the mutant of validate_command: only a string is searched for a pipe
validate_command_pipe_in_string_only(cmd) ==
    LET isText == cmd.type \in {"str", "bytes"}
        text   == Strip(cmd.text)
    IN IF (isText /\ text = <<>>) \/ (~isText /\ cmd.parts = <<>>)
       THEN [raised |-> "ValueError", words |-> <<>>]
       ELSE IF isText /\ Member("|", text)
       THEN [raised |-> "ValueError", words |-> <<>>]
       ELSE IF ~isText THEN [raised |-> None, words |-> cmd.parts]
       ELSE [raised |-> None, words |-> Split(text, <<>>)]

\* _validate_command(cmd): bytes are decoded, a string is stripped; an empty
\* command and a command with a pipe raise ValueError; a list or tuple is
\* returned as it is, a string is split into words
validate_command(cmd) ==
    LET isText == cmd.type \in {"str", "bytes"}
        text   == Strip(cmd.text)
    IN IF (isText /\ text = <<>>) \/ (~isText /\ cmd.parts = <<>>)
       THEN [raised |-> "ValueError", words |-> <<>>]
       ELSE IF (isText /\ Member("|", text))
                \/ (~isText /\ (Member(<<"|">>, cmd.parts) \/ Member("|", Join(cmd.parts))))
       THEN [raised |-> "ValueError", words |-> <<>>]
       ELSE IF ~isText THEN [raised |-> None, words |-> cmd.parts]
       ELSE [raised |-> None, words |-> Split(text, <<>>)]

\* run_cli_command(command, test=test): the command is validated, run by
\* subprocess.run and, when test is set, its return code is checked; ok says
\* whether the process returns 0
run_cli_command(cmd, test, ok) ==
    LET v == validate_command(cmd)
    IN IF v.raised # None THEN Result(<<>>, v.raised, {})
       ELSE Result(<<Event("subprocess", v.words)>>,
                   IF test /\ ~ok THEN "CalledProcessError" ELSE None, {})

\* ------------------------------------------------------------------ inputs

K1 == <<"CmdOrCtrl+shift+s">>
K2 == <<"CmdOrCtrl+OptionOrAlt+u">>

\* the make_action calls the model draws from: auto-derived and explicit
\* identifiers, two names with the same derived identifier, a placeholder
\* without callable, shortcuts (one of them twice), depth and flags
MakeActionInputs ==
    { MakeActionArgs(<<"a">>, "f", <<>>, 1, FALSE, FALSE, <<>>, <<>>),
      MakeActionArgs(<<"a", ":", " ", "b">>, "f", <<>>, 1, FALSE, FALSE, <<>>, <<>>),
      MakeActionArgs(<<"a", "_", "_", "b">>, "g", <<>>, 1, FALSE, FALSE, <<>>, <<>>),
      MakeActionArgs(<<"a">>, None, <<>>, 1, FALSE, FALSE, <<>>, <<>>),
      MakeActionArgs(<<"a">>, "g", <<"x">>, 1, FALSE, FALSE, <<>>, <<>>),
      MakeActionArgs(<<"a">>, "g", <<>>, 1, FALSE, FALSE, <<>>, K1),
      MakeActionArgs(<<"a", ":", " ", "b">>, "f", <<>>, 1, FALSE, FALSE, <<>>, K1),
      MakeActionArgs(<<"b">>, "f", <<>>, 2, TRUE, TRUE, <<>>, K2),
      MakeActionArgs(<<"b">>, None, <<>>, 0, FALSE, FALSE, <<"red">>, K2) }

AddMenuSectionInputs ==
    { [label |-> <<"TECH", " ", "|", " ", "size=20", " ", "color=", "blue">>,
       menu_depth |-> 0, text_color |-> <<>>],
      [label |-> <<"Text">>, menu_depth |-> 1, text_color |-> <<"blue">>] }

Depths == {0, 1}

PrintInMenuInputs == { <<"JSON">>, <<"Link", " ", "Makers">> }

\* the action argument of the command line
ArgActions ==
    { <<"a">>, <<"b">>, <<"x">>, <<"z">>, <<"a", ":", " ", "b">>, <<"a", "_", "_", "b">>,
      <<"ssh_tunnel_custom_", "t", "1">>, <<"ssh_tunnel_custom_", "a", "-", "b">>,
      <<"port_redirect_custom_", "x">> }

NoArgv == [set |-> FALSE, list_actions |-> FALSE, given |-> FALSE, action |-> <<>>]

Argv(list, given, action) ==
    [set |-> TRUE, list_actions |-> list, given |-> given, action |-> action]

\* a tunnel section of the ini file ("" stands for a missing key)
BaseConfig ==
    [name |-> "t1", remote_ip |-> "10.0.0.5", remote_port |-> "443",
     local_address |-> "127.0.0.2", local_port |-> "8443",
     ssh_server |-> "jump", ssh_port |-> "", ssh_options |-> <<>>]

\* the tunnel configs the model draws from: the valid one and one deviation
\* at a time
TunnelConfigs ==
    { BaseConfig,
      [BaseConfig EXCEPT !.name = ""],
      [BaseConfig EXCEPT !.ssh_server = ""],
      [BaseConfig EXCEPT !.ssh_server = "127.0.0.1"],
      [BaseConfig EXCEPT !.ssh_server = "127.0.0.1", !.ssh_port = "22"],
      [BaseConfig EXCEPT !.ssh_server = "127.0.0.1", !.ssh_port = "2222"],
      [BaseConfig EXCEPT !.ssh_port = "0"],
      [BaseConfig EXCEPT !.remote_ip = ""],
      [BaseConfig EXCEPT !.remote_port = ""],
      [BaseConfig EXCEPT !.remote_port = "abc"],
      [BaseConfig EXCEPT !.local_address = ""],
      [BaseConfig EXCEPT !.local_address = "127.0.0.1"],
      [BaseConfig EXCEPT !.local_address = "10.0.0.1"],
      [BaseConfig EXCEPT !.local_port = ""],
      [BaseConfig EXCEPT !.local_port = "80"],
      [BaseConfig EXCEPT !.ssh_port = "22"],
      [BaseConfig EXCEPT !.remote_port = "-1"],
      [BaseConfig EXCEPT !.ssh_options = <<"-v">>],
      [BaseConfig EXCEPT !.ssh_options = <<"-i", "k2">>],
      [BaseConfig EXCEPT !.ssh_options = <<"-v", "-L", "127.0.0.9:1:h:2">>] }

\* a redirect section of the ini file (<<>> stands for a missing key, found
\* says whether the section named on the command line exists)
BaseRedirect ==
    [section |-> "x", found |-> TRUE, name |-> "b",
     source_address |-> <<"127.0.0.2">>, source_port |-> <<"8080">>,
     target_address |-> <<"10.0.0.5">>, target_port |-> <<"80">>]

\* the redirect configs the model draws from: the valid one and its
\* deviations
RedirectConfigs ==
    { BaseRedirect,
      [BaseRedirect EXCEPT !.found = FALSE],
      [BaseRedirect EXCEPT !.name = ""],
      [BaseRedirect EXCEPT !.source_address = <<>>],
      [BaseRedirect EXCEPT !.source_address = <<" ">>],
      [BaseRedirect EXCEPT !.source_address = <<"10.0.0.1">>],
      [BaseRedirect EXCEPT !.source_port = <<>>],
      [BaseRedirect EXCEPT !.source_port = <<" ", "8080", " ">>],
      [BaseRedirect EXCEPT !.source_port = <<"abc">>],
      [BaseRedirect EXCEPT !.source_port = <<"0">>],
      [BaseRedirect EXCEPT !.target_address = <<>>],
      [BaseRedirect EXCEPT !.target_port = <<>>],
      [BaseRedirect EXCEPT !.target_port = <<" ", " ">>],
      [BaseRedirect EXCEPT !.target_port = <<"-1">>],
      [BaseRedirect EXCEPT !.source_port = <<>>, !.target_address = <<>>] }

\* the arguments do_terminate_tunnels is called with: none (Terminate SSH
\* tunnels) or the address and port of the tunnel about to be created
TerminateInputs == { <<"", "">>, <<"127.0.0.2", "8443">> }

\* what the operating system does to the commands of one run
EnvOk == [sudo_ok |-> TRUE, ssh_ok |-> TRUE, kill_fails |-> {}]

Envs(procs) ==
    { EnvOk, [EnvOk EXCEPT !.sudo_ok = FALSE], [EnvOk EXCEPT !.ssh_ok = FALSE] }
    \cup { [EnvOk EXCEPT !.kill_fails = {procs[i].pid}] : i \in 1..Len(procs) }

\* the process listings: up to MaxPsLines lines, each process with a pid of
\* its own
Listings ==
    UNION { { [i \in 1..n |-> PsLine(100 + i, f[i])] : f \in [1..n -> PsKinds] }
            : n \in 0..MaxPsLines }

\* the state of the operating system and the last run of a handler on it
\* (message: the message of the AssertionError that left it, None otherwise)
NetState(procs, ifaces, op, ip, port, config, env, raised, before, message) ==
    [procs |-> procs, ifaces |-> ifaces, op |-> op, ip |-> ip, port |-> port,
     config |-> config, env |-> env, raised |-> raised, before |-> before,
     message |-> message]

NetIdle == NetState(<<>>, {}, "none", "", "", BaseConfig, EnvOk, None, <<>>, None)

\* ------------------------------------------------------------------ the program

\* the status bar line set_status_bar_display prints with the default settings
StatusLine == set_status_bar_display(<<>>, "logo", <<"wedgie">>, <<"black">>)

\* Actions.__init__ up to the first registration: the status bar line is in
\* the buffer, the registry and the class-level tables are empty
Init ==
    /\ menu_output = StatusLine
    /\ action_list = <<>>
    /\ reserved_keyboard_shortcuts = <<>>
    /\ ssh_tunnel_configs = <<>>
    /\ port_redirect_configs = <<>>
    /\ pc = "build"
    /\ calls = <<>>
    /\ argv = NoArgv
    /\ events = <<>>
    /\ exit_status = "none"
    /\ net = NetIdle
    /\ clipboard = <<>>

Building == pc = "build" /\ Len(calls) < MaxCalls

\* a make_action call of the constructor; a duplicate shortcut raises
\* ValueError, which nobody catches: the process ends with status 1
MakeAction ==
    \E a \in MakeActionInputs :
        LET r == make_action(Registry, a)
        IN /\ Building
           /\ menu_output' = r.menu_output
           /\ action_list' = r.action_list
           /\ reserved_keyboard_shortcuts' = r.reserved
           /\ calls' = Append(calls, MakeActionCall(a, r.raised))
           /\ IF r.raised = None
              THEN UNCHANGED <<pc, events, exit_status>>
              ELSE /\ pc' = "exited"
                   /\ events' = Append(events, Event("uncaught", <<r.raised>>))
                   /\ exit_status' = "1"
           /\ UNCHANGED <<ssh_tunnel_configs, port_redirect_configs, argv, net, clipboard>>

AddMenuSection ==
    \E i \in AddMenuSectionInputs :
        /\ Building
        /\ menu_output' = add_menu_section(menu_output, i.label, i.menu_depth, i.text_color)
        /\ calls' = Append(calls, PlainCall("add_menu_section",
                          add_menu_section(<<>>, i.label, i.menu_depth, i.text_color)))
        /\ UNCHANGED <<action_list, reserved_keyboard_shortcuts, ssh_tunnel_configs,
                       port_redirect_configs, pc, argv, events, exit_status, net, clipboard>>

AddMenuDividerLine ==
    \E d \in Depths :
        /\ Building
        /\ menu_output' = add_menu_divider_line(menu_output, d)
        /\ calls' = Append(calls, PlainCall("add_menu_divider_line",
                          add_menu_divider_line(<<>>, d)))
        /\ UNCHANGED <<action_list, reserved_keyboard_shortcuts, ssh_tunnel_configs,
                       port_redirect_configs, pc, argv, events, exit_status, net, clipboard>>

PrintInMenu ==
    \E m \in PrintInMenuInputs :
        /\ Building
        /\ menu_output' = print_in_menu(menu_output, m)
        /\ calls' = Append(calls, PlainCall("print_in_menu", m \o <<"\n">>))
        /\ UNCHANGED <<action_list, reserved_keyboard_shortcuts, ssh_tunnel_configs,
                       port_redirect_configs, pc, argv, events, exit_status, net, clipboard>>

CheckForCustomNetworkingConfigs ==
    /\ Building
    /\ ssh_tunnel_configs' = ssh_tunnel_configs
            \o custom_configs(NetworkingConfigs, "ssh", "ssh_tunnel_custom_")
    /\ port_redirect_configs' = port_redirect_configs
            \o custom_configs(NetworkingConfigs, "redirect", "port_redirect_custom_")
    /\ calls' = Append(calls, PlainCall("check_for_custom_networking_configs", <<>>))
    /\ UNCHANGED <<menu_output, action_list, reserved_keyboard_shortcuts, pc, argv,
                   events, exit_status, net, clipboard>>

AddCustomNetworkingActions ==
    LET r == add_custom_networking_actions(Registry, port_redirect_configs,
                                           ssh_tunnel_configs)
    IN /\ Building
       /\ menu_output' = r.menu_output
       /\ action_list' = r.action_list
       /\ reserved_keyboard_shortcuts' = r.reserved
       /\ calls' = calls
               \o <<PlainCall("print_in_menu", <<"Port", " ", "Redirection", "\n">>)>>
               \o CustomCalls(port_redirect_configs, "port_redirect_custom")
               \o <<PlainCall("print_in_menu",
                              <<"SSH", " ", "Tunnels", " ", "(custom)", "\n">>)>>
               \o CustomCalls(ssh_tunnel_configs, "ssh_tunnel_custom")
       /\ UNCHANGED <<ssh_tunnel_configs, port_redirect_configs, pc, argv, events,
                      exit_status, net, clipboard>>

\* main goes on with the parsed arguments args; the callable, if one is
\* invoked, ends as outcome says
Run(args, outcome) ==
    /\ pc = "build"
    /\ argv' = args
    /\ events' = events \o main(Registry, args, outcome)
    /\ exit_status' = ExitStatus(events')
    /\ pc' = "exited"
    /\ clipboard' = ClipboardAfter(clipboard, main(Registry, args, outcome))
    /\ UNCHANGED <<menu_output, action_list, reserved_keyboard_shortcuts,
                   ssh_tunnel_configs, port_redirect_configs, calls, net>>

\* -l / --list, with or without an action argument
MainList ==
    \E args \in {Argv(TRUE, FALSE, <<>>), Argv(TRUE, TRUE, <<"a">>)} :
        Run(args, ReturnOutcome)

\* no action argument, or an empty one
MainMenu ==
    \E args \in {Argv(FALSE, FALSE, <<>>), Argv(FALSE, TRUE, <<>>)} :
        Run(args, ReturnOutcome)

\* an action argument that is no identifier of the registry
MainUnknown ==
    \E id \in ArgActions :
        /\ Sanitize(id) \notin DOMAIN action_list
        /\ Run(Argv(FALSE, TRUE, id), ReturnOutcome)

\* an action argument that names a registered action
MainDispatch ==
    \E id \in ArgActions, o \in Outcomes :
        /\ Sanitize(id) \in DOMAIN action_list
        /\ Run(Argv(FALSE, TRUE, id), o)

Next ==
    \/ MakeAction
    \/ AddMenuSection
    \/ AddMenuDividerLine
    \/ PrintInMenu
    \/ CheckForCustomNetworkingConfigs
    \/ AddCustomNetworkingActions
    \/ MainList
    \/ MainMenu
    \/ MainUnknown
    \/ MainDispatch

Spec == Init /\ [][Next]_vars

\* ------------------------------------------------------------------ the tunnel manager alone

\* a process listing and a set of interface addresses; no handler has run
InitTunnel ==
    /\ menu_output = StatusLine
    /\ action_list = <<>>
    /\ reserved_keyboard_shortcuts = <<>>
    /\ ssh_tunnel_configs = <<>>
    /\ port_redirect_configs = <<>>
    /\ pc = "net"
    /\ calls = <<>>
    /\ argv = NoArgv
    /\ events = <<>>
    /\ exit_status = "none"
    /\ \E procs \in Listings, ifaces \in {{"127.0.0.1"}, {"127.0.0.1", "127.0.0.2"}} :
           net = NetState(procs, ifaces, "none", "", "", BaseConfig, EnvOk, None, procs, None)
    /\ clipboard = <<>>

\* the processes left after a run: the killed ones are gone
Remaining(procs, killed) == SelectSeq(procs, LAMBDA l : l.pid \notin killed)

\* a process id no running process has
RECURSIVE FreshPid(_)
FreshPid(procs) ==
    IF procs = <<>> THEN 101
    ELSE LET n == FreshPid(Tail(procs))
         IN IF Head(procs).pid >= n THEN Head(procs).pid + 1 ELSE n

\* the forward a successful ssh -f leaves in the background
Launched(c, procs, r) ==
    IF r.raised = None
    THEN <<PsLine(FreshPid(procs), Forward(c.local_address, local_port(c)))>>
    ELSE <<>>

DoTerminateTunnels ==
    \E inp \in TerminateInputs, env \in Envs(net.procs) :
        LET r == do_terminate_tunnels(net.procs, inp[1], inp[2], env)
        IN /\ pc = "net"
           /\ events' = events \o r.ev
           /\ net' = NetState(Remaining(net.procs, r.killed), net.ifaces,
                              "do_terminate_tunnels", inp[1], inp[2], BaseConfig, env,
                              r.raised, net.procs, None)
           /\ pc' = "netdone"
           /\ UNCHANGED <<registryVars, exit_status, clipboard>>

DoExecuteSshTunnel ==
    \E c \in TunnelConfigs, env \in Envs(net.procs) :
        LET r == do_execute_ssh_tunnel(c, net.procs, net.ifaces, env)
        IN /\ pc = "net"
           /\ events' = events \o r.ev
           /\ net' = NetState(Remaining(net.procs, r.killed) \o Launched(c, net.procs, r),
                              net.ifaces, "do_execute_ssh_tunnel", "", "", c, env,
                              r.raised, net.procs,
                              IF r.raised = "AssertionError" THEN tunnel_assert_message(c)
                              ELSE None)
           /\ pc' = "netdone"
           /\ UNCHANGED <<registryVars, exit_status, clipboard>>

\* port_redirect_custom, as the callable of a dispatched action: sys.exit(1)
\* ends the process with status 1
DoPortRedirectCustom ==
    \E c \in RedirectConfigs, env \in {EnvOk, [EnvOk EXCEPT !.sudo_ok = FALSE]} :
        LET r == port_redirect_custom(c, net.ifaces, env)
        IN /\ pc = "net"
           /\ events' = events \o r.ev
           /\ net' = NetState(net.procs, net.ifaces, "port_redirect_custom", "", "", c, env,
                              r.raised, net.procs,
                              IF r.raised = "AssertionError"
                              THEN assert_message(
                                       loopback_checks(Word(get_var(c, "source_address"))),
                                       loopback_messages)
                              ELSE None)
           /\ exit_status' = IF r.raised = "SystemExit" THEN ExitStatus(r.ev) ELSE "none"
           /\ pc' = "netdone"
           /\ UNCHANGED <<registryVars, clipboard>>

\* Terminate All, as the callable of a dispatched action: the exception of
\* a failed command is caught by execute_plugin, which ends the process with
\* status 1
DoTerminateAll ==
    \E env \in Envs(net.procs), reset_ok \in BOOLEAN :
        LET r  == action_terminate_all(net.procs, env, reset_ok)
            ev == run_action("action_terminate_all", r)
        IN /\ pc = "net"
           /\ events' = events \o ev
           /\ net' = NetState(Remaining(net.procs, r.killed), net.ifaces,
                              "action_terminate_all", "", "", BaseConfig, env, r.raised,
                              net.procs, None)
           /\ exit_status' = ExitStatus(ev)
           /\ pc' = "netdone"
           /\ UNCHANGED <<registryVars, clipboard>>

NextTunnel ==
    DoTerminateTunnels \/ DoExecuteSshTunnel \/ DoPortRedirectCustom \/ DoTerminateAll

SpecTunnel == InitTunnel /\ [][NextTunnel]_vars

\* ------------------------------------------------------------------ the tunnel action, time after time

\* the valid configs the tunnel action is invoked with: two ports on one
\* address, the second below 1024
RepeatConfigs == { BaseConfig, [BaseConfig EXCEPT !.local_port = "80"] }

\* one entry of the log of invocations
Invocation(c, raised) == [op |-> "ssh_tunnel_custom", config |-> c, raised |-> raised]

\* ssh_tunnel_custom for a section of the ini file, invoked from the menu:
\* one process per invocation, one after the other, on the processes the
\* invocations before it left; events holds the effects of the last one
SshTunnelCustom ==
    \E c \in RepeatConfigs, env \in Envs(net.procs) :
        LET r == do_execute_ssh_tunnel(c, net.procs, net.ifaces, env)
        IN /\ pc = "net"
           /\ Len(calls) < MaxRuns
           /\ events' = r.ev
           /\ net' = NetState(Remaining(net.procs, r.killed) \o Launched(c, net.procs, r),
                              net.ifaces, "do_execute_ssh_tunnel", "", "", c, env,
                              r.raised, net.procs,
                              IF r.raised = "AssertionError" THEN tunnel_assert_message(c)
                              ELSE None)
           /\ calls' = Append(calls, Invocation(c, r.raised))
           /\ UNCHANGED <<menu_output, action_list, reserved_keyboard_shortcuts,
                          ssh_tunnel_configs, port_redirect_configs, pc, argv,
                          exit_status, clipboard>>

NextRepeat == SshTunnelCustom

SpecRepeat == InitTunnel /\ [][NextRepeat]_vars

\* ------------------------------------------------------------------ the clipboard actions alone

\* what the user may have copied: JSON documents, JSON scalars, strings that
\* hold JSON, broken JSON, numbers, words
ClipboardCores ==
    { <<"{", "\"a\":", "1", "}">>, <<"{", " ", "\"a\":", " ", "1", " ", "}">>,
      <<"[", "1", "]">>, <<"{", "}">>, <<"[", "]">>, <<"{", "\"a\":">>,
      <<"5">>, <<"null">>, <<"true">>, <<"\"", "abc", "\"">>,
      <<"\"", "[", "1", "]", "\"">>, <<"\"", "5", "\"">>,
      <<"abc">>, <<"1700000000">>, <<"1", ",", "700", ",", "000", ",", "000">>, <<"nan">> }

\* the same with white space around them, a carriage return or the "%" a
\* shell prints after output without newline
ClipboardTexts ==
    {<<>>, <<" ">>}
    \cup ClipboardCores
    \cup { <<" ">> \o c \o <<"\r", "\n">> : c \in ClipboardCores }
    \cup { c \o <<"%">> : c \in ClipboardCores }

InitClipboard ==
    /\ menu_output = StatusLine
    /\ action_list = <<>>
    /\ reserved_keyboard_shortcuts = <<>>
    /\ ssh_tunnel_configs = <<>>
    /\ port_redirect_configs = <<>>
    /\ pc = "clip"
    /\ calls = <<>>
    /\ argv = NoArgv
    /\ events = <<>>
    /\ exit_status = "none"
    /\ net = NetIdle
    /\ clipboard \in ClipboardTexts

\* execute_plugin dispatches the callable name, which ends as r says
Dispatch(name, r) ==
    /\ pc = "clip"
    /\ events' = events \o run_action(name, r)
    /\ clipboard' = ClipboardAfter(clipboard, events')
    /\ exit_status' = ExitStatus(events')
    /\ calls' = Append(calls, [op |-> name, before |-> clipboard, raised |-> r.raised])
    /\ pc' = "exited"
    /\ UNCHANGED <<menu_output, action_list, reserved_keyboard_shortcuts,
                   ssh_tunnel_configs, port_redirect_configs, argv, net>>

DoJsonValidate == Dispatch("action_json_validate", action_json_validate(clipboard))

DoJsonCompact ==
    \E notify \in BOOLEAN :
        Dispatch("action_json_compact", action_json_compact(clipboard, notify))

DoEpochTimeToStr ==
    \E update_clipboard \in BOOLEAN :
        Dispatch("action_epoch_time_to_str",
                 action_epoch_time_to_str(clipboard, update_clipboard))

NextClipboard == DoJsonValidate \/ DoJsonCompact \/ DoEpochTimeToStr

SpecClipboard == InitClipboard /\ [][NextClipboard]_vars

\* ------------------------------------------------------------------ the tunnel action, in several processes at once

\* the invocations that run at the same time
Invocations == 2

\* do_verify_loopback_address up to its reading of ifconfig -a, after the
\* asserts of do_execute_ssh_tunnel: the exception of a failed assert, or
\* whether the address was found among the interfaces
read_interfaces(c, ifaces) ==
    IF first_failure(tunnel_checks(c)) # None
    THEN Result(<<>>, first_failure(tunnel_checks(c)), {})
    ELSE IF first_failure(loopback_checks(c.local_address)) # None
    THEN Result(<<>>, first_failure(loopback_checks(c.local_address)), {})
    ELSE Result(<<Cmd(<<"ifconfig", "-a">>)>>, None, {})

\* the else branch of do_verify_loopback_address: the sudo prompt and the
\* alias command, taken on what ifconfig -a said before
create_alias(c, env) ==
    Then(do_prompt_for_sudo(env),
         Result(<<Cmd(<<"sudo", "ifconfig", "lo0", "alias", "$", c.local_address>>)>>,
                "CalledProcessError", {}))

\* do_verify_ssh_tunnel_available
clear_conflicts(c, procs, env) ==
    Then(Result(<<Event("stdout", <<"Checking for existing tunnels">>)>>, None, {}),
         do_terminate_tunnels(procs, c.local_address, local_port(c), env))

\* the mutant of launch_tunnel: the listing is read once more and nothing is
\* launched when a forward holds the address and port
launch_tunnel_unless_bound(c, procs, env) ==
    IF Filter(procs, c.local_address, local_port(c)) # <<>>
    THEN Result(<<>>, None, {})
    ELSE Then(IF IntOf[local_port(c)] <= 1023
              THEN Then(do_prompt_for_sudo(env),
                        Result(<<Cmd(<<"sudo">> \o ssh_command(c))>>, None, {}))
              ELSE Result(<<Cmd(ssh_command(c))>>, None, {}),
              Result(<<>>, IF env.ssh_ok THEN None ELSE "CalledProcessError", {}))

\* the end of do_execute_ssh_tunnel: the ssh command, behind sudo for a port
\* up to 1023; the process listing is not read again
launch_tunnel(c, procs, env) ==
    Then(IF IntOf[local_port(c)] <= 1023
         THEN Then(do_prompt_for_sudo(env),
                   Result(<<Cmd(<<"sudo">> \o ssh_command(c))>>, None, {}))
         ELSE Result(<<Cmd(ssh_command(c))>>, None, {}),
         Result(<<>>, IF env.ssh_ok THEN None ELSE "CalledProcessError", {}))

\* one invocation: where it is, whether it found the alias missing, what it
\* did so far and the exception that ended it
Racer(at, missing, ev, raised) ==
    [op |-> "ssh_tunnel_custom", at |-> at, missing |-> missing, ev |-> ev,
     raised |-> raised]

\* the invocation p after the step with the result r
Stepped(p, at, missing, r) ==
    [calls EXCEPT ![p] = Racer(IF r.raised # None THEN "done" ELSE at, missing,
                               calls[p].ev \o r.ev, r.raised)]

\* the processes the invocations start on: none, or a forward on the
\* address and port of the config
RaceListings == { <<>>, <<PsLine(101, Forward("127.0.0.2", "8443"))>> }

InitRace ==
    /\ menu_output = StatusLine
    /\ action_list = <<>>
    /\ reserved_keyboard_shortcuts = <<>>
    /\ ssh_tunnel_configs = <<>>
    /\ port_redirect_configs = <<>>
    /\ pc = "race"
    /\ calls = [p \in 1..Invocations |-> Racer("verify", FALSE, <<>>, None)]
    /\ argv = NoArgv
    /\ events = <<>>
    /\ exit_status = "none"
    /\ \E procs \in RaceListings, ifaces \in {{"127.0.0.1"}, {"127.0.0.1", "127.0.0.2"}},
          c \in RepeatConfigs :
           net = NetState(procs, ifaces, "ssh_tunnel_custom", "", "", c, EnvOk, None,
                          procs, None)
    /\ clipboard = <<>>

RaceUnchanged ==
    UNCHANGED <<menu_output, action_list, reserved_keyboard_shortcuts, ssh_tunnel_configs,
                port_redirect_configs, pc, argv, exit_status, clipboard>>

ReadInterfaces(p) ==
    LET r == read_interfaces(net.config, net.ifaces)
        missing == net.config.local_address \notin net.ifaces
    IN /\ pc = "race" /\ calls[p].at = "verify"
       /\ calls' = Stepped(p, IF missing THEN "alias" ELSE "scan", missing, r)
       /\ events' = events \o r.ev
       /\ UNCHANGED net
       /\ RaceUnchanged

CreateAlias(p) ==
    \E env \in {EnvOk, [EnvOk EXCEPT !.sudo_ok = FALSE]} :
        LET r == create_alias(net.config, env)
        IN /\ pc = "race" /\ calls[p].at = "alias"
           /\ calls' = Stepped(p, "scan", calls[p].missing, r)
           /\ events' = events \o r.ev
           /\ UNCHANGED net
           /\ RaceUnchanged

ClearConflicts(p) ==
    \E env \in Envs(net.procs) :
        LET r == clear_conflicts(net.config, net.procs, env)
        IN /\ pc = "race" /\ calls[p].at = "scan"
           /\ calls' = Stepped(p, "launch", calls[p].missing, r)
           /\ events' = events \o r.ev
           /\ net' = [net EXCEPT !.procs = Remaining(net.procs, r.killed)]
           /\ RaceUnchanged

LaunchTunnel(p) ==
    \E env \in {EnvOk, [EnvOk EXCEPT !.sudo_ok = FALSE], [EnvOk EXCEPT !.ssh_ok = FALSE]} :
        LET r == launch_tunnel(net.config, net.procs, env)
            launched == r.raised = None /\ r.ev # <<>>
        IN /\ pc = "race" /\ calls[p].at = "launch"
           /\ calls' = Stepped(p, "done", calls[p].missing, r)
           /\ events' = events \o r.ev
           /\ net' = [net EXCEPT !.procs =
                          IF launched
                          THEN net.procs \o <<PsLine(FreshPid(net.procs),
                                                     Forward(net.config.local_address,
                                                             local_port(net.config)))>>
                          ELSE net.procs]
           /\ RaceUnchanged

NextRace ==
    \E p \in 1..Invocations :
        ReadInterfaces(p) \/ CreateAlias(p) \/ ClearConflicts(p) \/ LaunchTunnel(p)

SpecRace == InitRace /\ [][NextRace]_vars

\* ------------------------------------------------------------------ the constructor, twice in one process

\* one step of Actions.__init__
Step(op, args) == [op |-> op, args |-> args]

Steps ==
    { Step("make_action", a) : a \in MakeActionInputs }
    \cup { Step("check_for_custom_networking_configs", NoArgs),
           Step("add_custom_networking_actions", NoArgs),
           Step("add_menu_divider_line", NoArgs) }

\* the bodies of __init__ the model draws from: up to MaxCalls steps
Programs == UNION { [1..n -> Steps] : n \in 1..MaxCalls }

\* an instance under construction, with the class-level tables it shares:
\* at counts the steps done, raised is the exception that ended it
Construction(menu, actions, reserved, tunnels, redirects, at, raised) ==
    [menu_output |-> menu, action_list |-> actions, reserved |-> reserved,
     ssh_tunnel_configs |-> tunnels, port_redirect_configs |-> redirects,
     at |-> at, raised |-> raised]

\* one step on the construction c
run_step(c, step) ==
    LET reg == [menu_output |-> c.menu_output, action_list |-> c.action_list,
                reserved |-> c.reserved]
    IN CASE step.op = "make_action" ->
              LET r == make_action(reg, step.args)
              IN Construction(r.menu_output, r.action_list, r.reserved,
                              c.ssh_tunnel_configs, c.port_redirect_configs,
                              c.at + 1, r.raised)
         [] step.op = "check_for_custom_networking_configs" ->
              Construction(c.menu_output, c.action_list, c.reserved,
                           c.ssh_tunnel_configs
                               \o custom_configs(NetworkingConfigs, "ssh", "ssh_tunnel_custom_"),
                           c.port_redirect_configs
                               \o custom_configs(NetworkingConfigs, "redirect",
                                                 "port_redirect_custom_"),
                           c.at + 1, None)
         [] step.op = "add_custom_networking_actions" ->
              LET r == add_custom_networking_actions(reg, c.port_redirect_configs,
                                                     c.ssh_tunnel_configs)
              IN Construction(r.menu_output, r.action_list, r.reserved,
                              c.ssh_tunnel_configs, c.port_redirect_configs,
                              c.at + 1, None)
         [] step.op = "add_menu_divider_line" ->
              Construction(add_menu_divider_line(c.menu_output, 1), c.action_list,
                           c.reserved, c.ssh_tunnel_configs, c.port_redirect_configs,
                           c.at + 1, None)

RECURSIVE run_steps(_, _)
run_steps(c, program) ==
    IF program = <<>> \/ c.raised # None THEN c
    ELSE run_steps(run_step(c, Head(program)), Tail(program))

\* the mutant of construct: the new instance starts with tables of its own
construct_with_fresh_tables(program, reserved, tunnels, redirects) ==
    run_steps(Construction(StatusLine, <<>>, <<>>, <<>>, <<>>, 0, None), program)

\* Actions(config): menu_output and action_list are set anew in __init__;
\* the shortcut table and the two config lists are attributes of the class,
\* changed in place, so the instance starts with what the class holds
construct(program, reserved, tunnels, redirects) ==
    run_steps(Construction(StatusLine, <<>>, reserved, tunnels, redirects, 0, None), program)

MaxConstructions == 2

InitTwice ==
    /\ menu_output = <<>>
    /\ action_list = <<>>
    /\ reserved_keyboard_shortcuts = <<>>
    /\ ssh_tunnel_configs = <<>>
    /\ port_redirect_configs = <<>>
    /\ pc = "construct"
    /\ calls = <<>>
    /\ argv = NoArgv
    /\ events = <<>>
    /\ exit_status = "none"
    /\ net = NetIdle
    /\ clipboard = <<>>

\* the program of the process: any for the first construction, the same for
\* those that follow
Construct ==
    \E program \in Programs :
        LET c == construct(program, reserved_keyboard_shortcuts, ssh_tunnel_configs,
                           port_redirect_configs)
        IN /\ pc = "construct"
           /\ Len(calls) < MaxConstructions
           /\ calls # <<>> => program = calls[1].program
           /\ menu_output' = c.menu_output
           /\ action_list' = c.action_list
           /\ reserved_keyboard_shortcuts' = c.reserved
           /\ ssh_tunnel_configs' = c.ssh_tunnel_configs
           /\ port_redirect_configs' = c.port_redirect_configs
           /\ calls' = Append(calls, [op |-> "Actions.__init__", program |-> program,
                                      at |-> c.at, raised |-> c.raised])
           /\ UNCHANGED <<pc, argv, events, exit_status, net, clipboard>>

NextTwice == Construct

SpecTwice == InitTwice /\ [][NextTwice]_vars

\* ------------------------------------------------------------------ run_cli_command alone

CommandTexts ==
    { <<>>, <<" ">>, <<"ls">>, <<" ", "ls", " ", "-l", "\n">>,
      <<"ps", " ", "-ef", " ", "|", " ", "grep", " ", "ssh">>,
      <<"echo", " ", "a", "|", "b">>, <<"|">>, <<"sudo", " ", "-v">> }

CommandParts ==
    { <<>>, << <<>> >>, << <<"ls">> >>, << <<"ls">>, <<"-l">> >>,
      << <<"ps">>, <<"-ef">>, <<"|">>, <<"grep">>, <<"ssh">> >>,
      << <<"echo">>, <<"a", "|", "b">> >>, << <<"|">> >>, << <<"sudo">>, <<"-v">> >> }

Commands ==
    { StrCommand(t, x) : t \in {"str", "bytes"}, x \in CommandTexts }
    \cup { ListCommand(t, x) : t \in {"list", "tuple"}, x \in CommandParts }

InitCli ==
    /\ menu_output = StatusLine
    /\ action_list = <<>>
    /\ reserved_keyboard_shortcuts = <<>>
    /\ ssh_tunnel_configs = <<>>
    /\ port_redirect_configs = <<>>
    /\ pc = "cli"
    /\ calls = <<>>
    /\ argv = NoArgv
    /\ events = <<>>
    /\ exit_status = "none"
    /\ net = NetIdle
    /\ clipboard = <<>>

RunCliCommand ==
    \E cmd \in Commands, test \in BOOLEAN, ok \in BOOLEAN :
        LET r == run_cli_command(cmd, test, ok)
        IN /\ pc = "cli"
           /\ events' = events \o r.ev
           /\ calls' = Append(calls, [op |-> "run_cli_command", command |-> cmd,
                                      test |-> test, ok |-> ok, raised |-> r.raised])
           /\ pc' = "clidone"
           /\ UNCHANGED <<menu_output, action_list, reserved_keyboard_shortcuts,
                          ssh_tunnel_configs, port_redirect_configs, argv, exit_status,
                          net, clipboard>>

NextCli == RunCliCommand

SpecCli == InitCli /\ [][NextCli]_vars

\* ------------------------------------------------------------------ claims: registry

\* the make_action calls that stored an action
Stored == {k \in 1..Len(calls) : calls[k].op = "make_action" /\ calls[k].id # <<>>}

\* the host's reading of a menu line: the text between param1=" and the next "
RECURSIVE UpToQuote(_)
UpToQuote(s) ==
    IF s = <<>> \/ Head(s) = "\"" THEN <<>> ELSE <<Head(s)>> \o UpToQuote(Tail(s))

Param1(line) ==
    LET P == {i \in 1..Len(line) : line[i] = "param1=\""}
    IN IF P = {} THEN <<>>
       ELSE UpToQuote(SubSeq(line, (CHOOSE i \in P : TRUE) + 1, Len(line)))

RECURSIVE Texts(_)
Texts(cs) == IF cs = <<>> THEN <<>> ELSE Head(cs).text \o Texts(Tail(cs))

Dispatched == pc = "exited" /\ argv.set /\ ~argv.list_actions /\ argv.given
                 /\ argv.action # <<>>

MenuRequested == pc = "exited" /\ argv.set /\ ~argv.list_actions
                    /\ (~argv.given \/ argv.action = <<>>)

Has(ev) == \E i \in 1..Len(events) : events[i].ev = ev

\* C1 as stated: the auto-derived identifier is the display name with every
\* RUN of non-word characters replaced by a single "_".
C1_IdCollapsesRuns ==
    \A k \in Stored : calls[k].auto => calls[k].id = CollapseRuns(calls[k].name)

\* C1 as amended: the auto-derived identifier written into the menu line and
\* stored in the action map is a function of the display name alone: it has
\* the name's length, keeps every word character and holds "_" at the place
\* of each non-word character (a run of k of them gives k separators); two
\* registrations of one name get the same identifier.
C1_IdReplacesEachNonWordChar ==
    \A k \in Stored :
        calls[k].auto =>
            LET id == Param1(calls[k].text)
                nm == calls[k].name
            IN /\ Len(id) = Len(nm)
               /\ \A i \in 1..Len(nm) :
                      id[i] = IF nm[i] \in WordAtoms THEN nm[i] ELSE "_"
               /\ id \in DOMAIN action_list
               /\ action_list[id].id = id
               /\ \A j \in Stored :
                      (calls[j].auto /\ calls[j].name = nm) => Param1(calls[j].text) = id

\* C1 witness: an action is registered under an identifier derived from a
\* name that holds two non-word characters in a row.
C1_Witness ==
    \E k \in Stored :
        /\ calls[k].auto
        /\ \E i \in 1..(Len(calls[k].name) - 1) :
               calls[k].name[i] \notin WordAtoms /\ calls[k].name[i + 1] \notin WordAtoms

\* the action that call k stored is the one the registry holds (no later
\* registration took its identifier)
Registered(k) ==
    /\ calls[k].id \in DOMAIN action_list
    /\ action_list[calls[k].id] = ActionObject(calls[k].id, calls[k].name, calls[k].action)

\* C2: when the program is invoked with the identifier written as param1 in
\* the menu line of an action the registry holds, whether that identifier
\* was derived or given (ssh_tunnel_custom_<section> included), that
\* action's callable is invoked.
C2_MenuLineDispatches ==
    Dispatched =>
        \A k \in Stored :
            (Registered(k) /\ argv.action = Param1(calls[k].text)) =>
                \E i \in 1..Len(events) :
                    events[i] = Event("invoke", <<calls[k].action>>)

\* C3: a make_action call whose shortcut is already reserved raises, and the
\* menu buffer, the action map and the shortcut table stay as they were.
C3_DuplicateShortcutRaisesFirst ==
    [][ ( /\ Len(calls') = Len(calls) + 1
          /\ calls'[Len(calls')].op = "make_action"
          /\ calls'[Len(calls')].key # <<>>
          /\ calls'[Len(calls')].key \in DOMAIN reserved_keyboard_shortcuts )
        => ( /\ calls'[Len(calls')].raised = "ValueError"
             /\ menu_output' = menu_output
             /\ action_list' = action_list
             /\ reserved_keyboard_shortcuts' = reserved_keyboard_shortcuts
             /\ pc' = "exited" ) ]_vars

\* C3 witness: the second of two registrations with one shortcut has raised.
C3_Witness ==
    \E k \in 1..Len(calls), j \in 1..Len(calls) :
        /\ j < k
        /\ calls[k].raised = "ValueError"
        /\ calls[j].key = calls[k].key
        /\ calls[j].raised = None

\* C4: execute_plugin with a non-empty identifier that is, after
\* normalisation, no key of the action map fails (an exception leaves it, the
\* process ends with status 1), invokes no callable and leaves the action
\* map, the menu buffer and the shortcut table as they were.
C4_UnknownIdFailsWithoutEffect ==
    [][ ( /\ pc = "build" /\ pc' = "exited" /\ argv'.set
          /\ ~argv'.list_actions /\ argv'.given /\ argv'.action # <<>>
          /\ Sanitize(argv'.action) \notin DOMAIN action_list )
        => ( /\ \A i \in 1..Len(events') : events'[i].ev # "invoke"
             /\ events'[Len(events')].ev = "uncaught"
             /\ exit_status' = "1"
             /\ action_list' = action_list
             /\ menu_output' = menu_output
             /\ reserved_keyboard_shortcuts' = reserved_keyboard_shortcuts ) ]_vars

\* C4 witness: an unknown identifier was given to a registry that holds
\* actions.
C4_Witness ==
    /\ Dispatched
    /\ Sanitize(argv.action) \notin DOMAIN action_list
    /\ DOMAIN action_list # {}

\* C5 as stated: the rendered output is, line for line, what the calls
\* produced, in the order of the calls.
C5_RenderIsTheLines ==
    MenuRequested => events = <<Event("stdout", StatusLine \o Texts(calls))>>

\* C5 as amended: the buffer is append-only: at every moment it is the lines
\* the calls produced, in the order of the calls; the rendered output is that
\* text with the whitespace at its very start and end stripped (so the last
\* line loses trailing blanks), followed by one newline.
C5_AppendOnlyRenderStripped ==
    /\ menu_output = StatusLine \o Texts(calls)
    /\ MenuRequested =>
           events = <<Event("stdout", Strip(StatusLine \o Texts(calls)) \o <<"\n">>)>>

\* C5 witness: the menu was rendered after two different kinds of call, the
\* last of which left a line that ends in a blank.
C5_Witness ==
    /\ MenuRequested
    /\ Len(calls) >= 2
    /\ calls[1].op # calls[2].op
    /\ Len(menu_output) >= 2
    /\ menu_output[Len(menu_output) - 1] = " "

\* the positions of the events of one kind
At(ev) == {i \in 1..Len(events) : events[i].ev = ev}

\* C6: when the dispatched callable raises an exception, the events that
\* follow are, in this order and with nothing else: the traceback goes to the
\* clipboard, the alert and the notification that names the exception type,
\* the exit with status 1; the callable was invoked once.
C6_ExceptionClipboardNotifyExit ==
    \A i \in At("raised") :
        /\ i = 2 /\ events[1].ev = "invoke"
        /\ Cardinality(At("invoke")) = 1
        /\ Len(events) = i + 4
        /\ events[i + 1] = Event("clipboard", <<"traceback">>)
        /\ events[i + 2].ev = "beep"
        /\ events[i + 3].ev = "notify"
        /\ \E j \in 1..Len(events[i + 3].what) : events[i + 3].what[j] = events[i].what[1]
        /\ events[i + 4] = Event("exit", <<"1">>)
        /\ exit_status = "1"

\* C6 witness: a dispatched callable has raised.
C6_Witness == pc = "exited" /\ Has("raised") /\ Has("clipboard")

\* the events that write the rendered menu to standard output
MenuPrints ==
    {i \in At("stdout") : events[i].what = Strip(menu_output) \o <<"\n">>}

\* C7: in an invocation that got as far as its arguments, the menu text is
\* written at most once, and it is written exactly when no action identifier
\* (an empty one counts as none) and no -l flag was given; with -l there is
\* one listing per identifier instead and no callable is invoked.
C7_MenuPrintedOnceIffNoArgs ==
    (pc = "exited" /\ argv.set) =>
        /\ Cardinality(MenuPrints) <= 1
        /\ (Cardinality(MenuPrints) = 1) <=> MenuRequested
        /\ argv.list_actions =>
               /\ ~Has("invoke")
               /\ Cardinality(At("stdout")) = Cardinality(DOMAIN action_list)

\* C7 witness: -l was given together with an action identifier the registry
\* holds.
C7_Witness ==
    /\ pc = "exited" /\ argv.list_actions /\ argv.given
    /\ argv.action \in DOMAIN action_list

\* C8: the exit status is 0 when the menu was rendered, when the identifiers
\* were listed and when the dispatched callable returned; it is 1 when the
\* callable was interrupted from the keyboard and when it raised.
C8_ExitStatus ==
    (pc = "exited" /\ argv.set) =>
        /\ MenuRequested => exit_status = "0"
        /\ argv.list_actions => exit_status = "0"
        /\ Has("return") => exit_status = "0"
        /\ Has("interrupt") => exit_status = "1"
        /\ Has("raised") => exit_status = "1"

\* C8 witness: the callable was interrupted and the process left with
\* status 1.
C8_Witness == pc = "exited" /\ Has("interrupt") /\ exit_status = "1"

\* ------------------------------------------------------------------ claims: tunnel manager

Terminated == pc = "netdone" /\ net.op = "do_terminate_tunnels"

Executed == pc = "netdone" /\ net.op = "do_execute_ssh_tunnel"

\* the lines of a listing that show an ssh invocation with the -L flag and,
\* when an address was requested, the requested "address:port:"
ForwardLines(procs, ip, port) ==
    {i \in 1..Len(procs) :
        /\ procs[i].ssh /\ procs[i].L
        /\ ip # "" => specific_loopback_in(procs[i], ip, port)}

\* the kill commands among the events
Kills == {i \in At("cmd") : events[i].what[2] = "kill"}

\* C9: when sudo and kill work, do_terminate_tunnels makes one kill attempt
\* for each line that shows an ssh forward (with the requested address and
\* port, when given) and none for the other lines.
C9_OneKillPerForwardLine ==
    (Terminated /\ net.env = EnvOk) =>
        /\ Cardinality(Kills) = Cardinality(ForwardLines(net.before, net.ip, net.port))
        /\ \A i \in 1..Len(net.before) :
               (i \in ForwardLines(net.before, net.ip, net.port))
               <=> (\E k \in Kills : events[k].what[4] = ToString(net.before[i].pid))

\* the config lacks ssh_server, or its remote_port is no number, or it lacks
\* local_address
BadConfig(c) ==
    c.ssh_server = "" \/ c.remote_port \notin DOMAIN IntOf \/ c.local_address = ""

\* C10: do_execute_ssh_tunnel with a config that lacks ssh_server, or has a
\* non-numeric remote_port, or lacks local_address raises and has run no
\* external command: no interface query, no process scan, no kill, no ssh.
C10_BadConfigAbortsFirst ==
    (Executed /\ BadConfig(net.config)) =>
        /\ net.raised # None
        /\ At("cmd") = {}
        /\ net.procs = net.before

\* C10 witness: a config with a non-numeric remote_port was rejected while a
\* forward on its address and port was running.
C10_Witness ==
    /\ Executed
    /\ net.config.remote_port = "abc"
    /\ ForwardLines(net.before, net.config.local_address, net.config.local_port) # {}

\* C11: do_execute_ssh_tunnel with a config whose ssh_server is a loopback
\* address and whose SSH port is 22, be it omitted or written as 22 in the
\* configuration, raises and has run no external command, whatever the other
\* fields are.
C11_LoopbackServerPort22Rejected ==
    (Executed /\ IsLoopback(net.config.ssh_server)
              /\ ssh_server_port(net.config) \in DOMAIN IntOf
              /\ IntOf[ssh_server_port(net.config)] = 22) =>
        /\ net.raised # None
        /\ At("cmd") = {}

\* the ssh launch among the events (the command after a leading "sudo")
Launches == {i \in At("cmd") : events[i].what[1] = "ssh" \/ (Len(events[i].what) > 1 /\ events[i].what[1] = "sudo" /\ events[i].what[2] = "ssh")}

\* the places of a command where the words of arg stand in a row
Occurrences(cmd, arg) ==
    {i \in 1..(Len(cmd) - Len(arg) + 1) : SubSeq(cmd, i, i + Len(arg) - 1) = arg}

\* the forward argument and what follows it, from the fields of the config
ForwardArgument(c) ==
    <<"-L", c.local_address, ":", IF c.local_port # "" THEN c.local_port ELSE c.remote_port,
      ":", c.remote_ip, ":", c.remote_port,
      "-N", "-f", "user", "@", c.ssh_server, "-p",
      IF c.ssh_port # "" THEN c.ssh_port ELSE "22">>

\* C12: the ssh command do_execute_ssh_tunnel launches holds exactly once the
\* argument -L <local_address>:<local_port>:<remote_ip>:<remote_port> built
\* from the config (local_port standing for remote_port when omitted),
\* followed by -N -f <ssh_user>@<ssh_server> -p <ssh_port> at the end of the
\* command; and a valid config with a server that is no loopback address and
\* port 22 is not rejected: when the alias (not 127.0.0.1) exists and sudo,
\* kill and ssh work on a listing of forwards the program launched, the
\* command is launched.
C12_LaunchCommandHoldsTheForward ==
    Executed =>
        /\ \A i \in Launches :
               LET cmd == events[i].what
                   arg == ForwardArgument(net.config)
               IN /\ Cardinality(Occurrences(cmd, arg)) = 1
                  /\ Len(cmd) - Len(arg) + 1 \in Occurrences(cmd, arg)
        /\ ( /\ first_failure(SubSeq(tunnel_checks(net.config), 1, 10)) = None
             /\ ~IsLoopback(net.config.ssh_server)
             /\ IntOf[ssh_server_port(net.config)] = 22
             /\ net.config.local_address \in net.ifaces \ {"127.0.0.1"}
             /\ net.env = EnvOk
             /\ \A j \in 1..Len(net.before) : net.before[j].kind \in {"header", "sshd", "forward"} )
           => (Cardinality(Launches) = 1 /\ net.raised = None)

\* C12 witness: a config with the server "jump" and ssh_port = 22 was launched
\* after a forward on its address was killed.
C12_Witness ==
    /\ Executed /\ Launches # {} /\ Kills # {}
    /\ net.config.ssh_server = "jump"
    /\ net.config.ssh_port = "22"

\* the commands of one kind among the events
Cmds(words) == {i \in At("cmd") : events[i].what = words}

AliasCmds == {i \in At("cmd") : Len(events[i].what) > 2 /\ events[i].what[2] = "ifconfig"}

\* C13: in a run of do_execute_ssh_tunnel a command is run only after the
\* fields passed validation; the interface query comes first, then (alias
\* missing) the alias creation, then the process scan, then the kills, then
\* the ssh launch, which is the last command; the launch occurs only when the
\* alias was found, the scan ran after the interface query and every forward
\* the scan found on the local address and port was killed; the query, the
\* alias creation, the scan and the launch happen at most once and no process
\* is killed twice.
C13_ValidateAliasScanLaunch ==
    Executed =>
        LET ifc  == Cmds(<<"ifconfig", "-a">>)
            scan == Cmds(<<"ps", "-ef">>)
        IN /\ At("cmd") # {} => first_failure(tunnel_checks(net.config)) = None
           /\ Cardinality(ifc) <= 1 /\ Cardinality(scan) <= 1
           /\ Cardinality(AliasCmds) <= 1 /\ Cardinality(Launches) <= 1
           /\ \A i \in At("cmd") : \A q \in ifc : q <= i
           /\ \A a \in AliasCmds : ifc # {} /\ scan = {} /\ Launches = {}
           /\ \A p \in scan : \E q \in ifc : q < p
           /\ \A k \in Kills : \E p \in scan : p < k
           /\ \A k \in Kills, j \in Kills :
                  events[k].what[4] = events[j].what[4] => k = j
           /\ \A l \in Launches :
                  /\ \A i \in At("cmd") : i <= l
                  /\ \E p \in scan : p < l
                  /\ net.config.local_address \in net.ifaces
                  /\ \E n \in At("notify") : n < l
                  /\ \A i \in 1..Len(net.before) :
                         tunnel_line(net.before[i], net.config.local_address,
                                     local_port(net.config))
                         => \E k \in Kills :
                                k < l /\ events[k].what[4] = ToString(net.before[i].pid)

\* C13 witness: the launch came after two forwards on the local address and
\* port were killed.
C13_Witness == Executed /\ Launches # {} /\ Cardinality(Kills) = 2

\* the running forwards bound to a local address and port
BoundTo(procs, la, lp) ==
    {i \in 1..Len(procs) : procs[i].ssh /\ procs[i].L /\ procs[i].la = la /\ procs[i].lp = lp}

\* C14: after one or more invocations of the tunnel action in a row, all for
\* one valid config and each completing normally, exactly one forward bound
\* to the config's local address and port is running, whatever was running
\* before the first of them.
C14_AtMostOneForwardAfterReinvocation ==
    ( /\ calls # <<>>
      /\ \A k \in 1..Len(calls) :
             calls[k].op = "ssh_tunnel_custom" /\ calls[k].raised = None
                /\ calls[k].config = calls[1].config )
    => Cardinality(BoundTo(net.procs, calls[1].config.local_address,
                           local_port(calls[1].config))) = 1

\* C14 witness: the second invocation for a config completed normally: it
\* killed a forward on the config's address and port and launched a new one,
\* while sshd kept running.
C14_Witness ==
    /\ Len(calls) >= 2
    /\ \A k \in 1..Len(calls) : calls[k].raised = None /\ calls[k].config = calls[1].config
    /\ Kills # {}
    /\ Cardinality(BoundTo(net.procs, "127.0.0.2", "8443")) = 1
    /\ \E i \in 1..Len(net.procs) : net.procs[i].kind = "sshd"

\* C15: when no line of the listing shows an ssh forward (on the requested
\* address and port, when given), do_terminate_tunnels runs the process scan
\* and nothing else: no sudo prompt, no kill; it prints and notifies "No
\* existing SSH tunnels found" without alert and without exit, and returns;
\* tunnel creation, which calls it, then goes on to launch ssh (after the
\* sudo prompt of its own when the local port is below 1024).
C15_NothingToTerminateIsNoError ==
    /\ (Terminated /\ ForwardLines(net.before, net.ip, net.port) = {}) =>
           /\ events = <<Cmd(<<"ps", "-ef">>),
                         Event("stdout", <<"No existing SSH tunnels found">>),
                         Event("notify", <<"No existing SSH tunnels found">>)>>
           /\ net.raised = None
           /\ exit_status = "none"
           /\ net.procs = net.before
    /\ ( /\ Executed
         /\ Cmds(<<"ps", "-ef">>) # {}
         /\ ForwardLines(net.before, net.config.local_address, local_port(net.config)) = {} )
       => /\ Kills = {}
          /\ \A i \in At("notify") : events[i].what = <<"No existing SSH tunnels found">>
          /\ At("beep") = {} /\ At("exit") = {}
          /\ \A l \in Launches : \E n \in At("notify") : n < l
          /\ (net.env.sudo_ok \/ IntOf[local_port(net.config)] > 1023) =>
                 /\ Launches # {}
                 /\ net.env.ssh_ok => net.raised = None

\* C15 witness: do_terminate_tunnels was asked for 127.0.0.2:8443 while sshd
\* and a forward on another address were running.
C15_Witness ==
    /\ Terminated /\ net.ip = "127.0.0.2"
    /\ ForwardLines(net.before, net.ip, net.port) = {}
    /\ \E i \in 1..Len(net.before) : net.before[i].kind = "sshd"
    /\ \E i \in 1..Len(net.before) : net.before[i].kind = "forward"

Redirected == pc = "netdone" /\ net.op = "port_redirect_custom"

\* the variables of a redirect config that are absent or blank
Missing(c) ==
    {v \in {"source_address", "source_port", "target_address", "target_port"} :
        \A i \in 1..Len(c[v]) : c[v][i] \in Whitespace}

\* C16: port_redirect_custom on a config in which one of source_address,
\* source_port, target_address and target_port is absent or blank ends the
\* process with status 1 after an alert and an error message (printed and
\* notified) that names a missing variable; no command was run before: no
\* sudo prompt, no interface query, no firewall rule.
C16_MissingRedirectVariableAborts ==
    (Redirected /\ net.config.found /\ Missing(net.config) # {}) =>
        /\ net.raised = "SystemExit"
        /\ exit_status = "1"
        /\ At("cmd") = {}
        /\ Cardinality(At("notify")) = 1 /\ Cardinality(At("beep")) = 1
        /\ \A n \in At("notify") \cup At("stdout") :
               \E v \in Missing(net.config) :
                   \E j \in 1..Len(events[n].what) : events[n].what[j] = v
        /\ events[Len(events)] = Event("exit", <<"1">>)

\* C16 witness: a config whose target_port is blank was rejected.
C16_Witness ==
    /\ Redirected /\ net.raised = "SystemExit"
    /\ net.config.target_port = <<" ", " ">>

\* a port value that is a positive integer
PositivePort(v) == v \in DOMAIN IntOf /\ IntOf[v] > 0

\* C17: a tunnel config or a redirect config in which a port is zero,
\* negative or no number is rejected, and no external command is run for it.
C17_PortsArePositiveIntegers ==
    /\ ( Executed /\ ( \/ ~PositivePort(ssh_server_port(net.config))
                       \/ ~PositivePort(net.config.remote_port)
                       \/ ~PositivePort(local_port(net.config)) ) )
       => (net.raised # None /\ At("cmd") = {})
    /\ ( Redirected /\ net.config.found
                    /\ ( \/ ~PositivePort(Word(get_var(net.config, "source_port")))
                         \/ ~PositivePort(Word(get_var(net.config, "target_port"))) ) )
       => (net.raised # None /\ At("cmd") = {})

\* the five fields C18 names, by the key of the config
RequiredFields == {"ssh_server", "remote_ip", "remote_port", "local_address", "local_port"}

\* the message that names a field
FieldMessage ==
    [f \in RequiredFields \ {"local_port"} |->
        CASE f = "ssh_server" -> "Error: SSH server address not provided"
          [] f = "remote_ip" -> "Error: Remote address for SSH tunnel not provided"
          [] f = "remote_port" -> "Error: Remote port for SSH tunnel not provided"
          [] f = "local_address" -> "Error: Loopback address not provided"]

\* C18 as stated: a config that lacks one of server address, remote address,
\* remote port, local loopback address and local port is rejected and no
\* tunnel is launched.
C18_AllFiveFieldsRequired ==
    (Executed /\ \E f \in RequiredFields : net.config[f] = "") =>
        (net.raised # None /\ Launches = {})

\* C18 as amended: a config that lacks the server address, the remote
\* address, the remote port or the local loopback address is rejected by an
\* AssertionError whose message names the field, before any command, and no
\* tunnel is launched; a tunnel is launched only for a config that has these
\* four and a name; the local port may be omitted: the remote port is then
\* the local port, and such a config is launched like any other.
C18_FourFieldsRequiredLocalPortDefaults ==
    Executed =>
        /\ \A f \in RequiredFields \ {"local_port"} :
               net.config[f] = "" =>
                   /\ net.raised = "AssertionError"
                   /\ net.message = FieldMessage[f]
                   /\ At("cmd") = {}
                   /\ net.procs = net.before
        /\ Launches # {} =>
               /\ \A f \in RequiredFields \ {"local_port"} : net.config[f] # ""
               /\ net.config.name # ""
        /\ ( /\ net.config = [BaseConfig EXCEPT !.local_port = ""]
             /\ net.config.local_address \in net.ifaces
             /\ net.env = EnvOk
             /\ \A j \in 1..Len(net.before) : net.before[j].kind \in {"header", "sshd", "forward"} )
           => /\ net.raised = None
              /\ \E l \in Launches :
                     Occurrences(events[l].what,
                                 <<"-L", net.config.local_address, ":", net.config.remote_port,
                                   ":", net.config.remote_ip, ":", net.config.remote_port>>) # {}

\* C18 witness: a config without remote_ip was rejected while a forward was
\* running.
C18_Witness ==
    /\ Executed /\ net.config.remote_ip = ""
    /\ net.raised = "AssertionError"
    /\ \E i \in 1..Len(net.before) : net.before[i].kind = "forward"

\* C19: when the program is invoked with an identifier the registry does not
\* hold, the failure is notified (the alert and the notification of
\* display_notification_error) before the process ends.
C19_UnknownIdIsNotified ==
    (Dispatched /\ Sanitize(argv.action) \notin DOMAIN action_list) =>
        /\ Has("notify")
        /\ Has("beep")

\* the text a step appended to the menu buffer
Appended == SubSeq(menu_output', Len(menu_output) + 1, Len(menu_output'))

\* C20: a make_action call without callable leaves the action map as it
\* was; unless it raises for a shortcut already taken (then the buffer stays
\* as it was too), it appends to the buffer exactly one line, which holds the
\* name and none of the directives bash, param1 and terminal.
C20_PlaceholderLineOnly ==
    [][ ( /\ Len(calls') = Len(calls) + 1
          /\ calls'[Len(calls')].op = "make_action"
          /\ calls'[Len(calls')].action = None )
        => ( /\ action_list' = action_list
             /\ calls'[Len(calls')].raised # None => menu_output' = menu_output
             /\ calls'[Len(calls')].raised = None =>
                    /\ Len(menu_output') > Len(menu_output)
                    /\ SubSeq(menu_output', 1, Len(menu_output)) = menu_output
                    /\ {i \in 1..Len(Appended) : Appended[i] = "\n"} = {Len(Appended)}
                    /\ Occurrences(Appended, calls'[Len(calls')].name) # {}
                    /\ \A i \in 1..Len(Appended) :
                           Appended[i] \notin {"bash=\"", "param1=\"", "terminal="} ) ]_vars

\* C20 witness: an entry without callable was added for a name under which
\* an action is registered, and the action map holds that action still.
C20_Witness ==
    \E k \in 1..Len(calls), j \in Stored :
        /\ j < k
        /\ calls[k].op = "make_action" /\ calls[k].action = None /\ calls[k].raised = None
        /\ calls[k].name = calls[j].name
        /\ action_list[calls[j].id].action = calls[j].action

\* ------------------------------------------------------------------ claims: clipboard

\* the text an action reads from the clipboard: stripped, without carriage
\* returns and without the trailing "%"
ReadText(clip) ==
    LET t == SelectSeq(Strip(clip), LAMBDA a : a # "\r")
    IN IF t # <<>> /\ t[Len(t)] = "%" THEN SubSeq(t, 1, Len(t) - 1) ELSE t

\* texts that are no JSON, and JSON texts whose value is a number, a string,
\* true or null
MalformedJson == {<<>>, <<"{", "\"a\":">>, <<"abc">>, <<"nan">>,
                  <<"1", ",", "700", ",", "000", ",", "000">>}
ScalarJson == {<<"5">>, <<"1700000000">>, <<"null">>, <<"true">>, <<"\"", "abc", "\"">>,
               <<"\"", "5", "\"">>}

\* texts that are no number, once the commas are taken out
NonNumeric ==
    ClipboardCores \ {<<"5">>, <<"1700000000">>, <<"nan">>,
                      <<"1", ",", "700", ",", "000", ",", "000">>}

\* the action of the last dispatch got a text it rejects as invalid
RejectsInput ==
    /\ pc = "exited" /\ calls # <<>>
    /\ \/ /\ calls[1].op \in {"action_json_validate", "action_json_compact"}
          /\ ReadText(calls[1].before) \in MalformedJson \cup ScalarJson
       \/ /\ calls[1].op = "action_epoch_time_to_str"
          /\ ReadText(calls[1].before) \in NonNumeric \cup {<<>>}

\* C21: when an action gets from the clipboard a text it rejects (malformed
\* JSON, JSON whose value is neither object nor array, an epoch value that is
\* no number), it notifies, the process exits, and the clipboard holds what
\* it held before.
C21_InvalidInputLeavesClipboard ==
    RejectsInput =>
        /\ Has("notify")
        /\ exit_status = "1"
        /\ clipboard = calls[1].before

\* ------------------------------------------------------------------ claims: tunnel manager, continued

\* C22: when the local address of the config is not among the interface
\* addresses, the alias command do_verify_loopback_address issues is "sudo
\* ifconfig <interface> alias <address>" with exactly that address; when the
\* address is among them, no alias command is issued.
C22_AliasCommandNamesTheAddress ==
    Executed =>
        /\ \A a \in AliasCmds :
               events[a].what = <<"sudo", "ifconfig", "lo0", "alias", net.config.local_address>>
        /\ net.config.local_address \in net.ifaces => AliasCmds = {}

\* C23: on a listing of forwards the program launched, with sudo granted, a
\* kill attempt is made for every matching process, also when the kill of
\* one of them fails; the processes whose kill succeeded are gone.
C23_KillFailureDoesNotStopTheLoop ==
    ( /\ Terminated
      /\ net.env.sudo_ok
      /\ \A j \in 1..Len(net.before) : net.before[j].kind \in {"header", "sshd", "forward"} )
    => /\ \A i \in 1..Len(net.before) :
              tunnel_line(net.before[i], net.ip, net.port)
              => \E k \in Kills : events[k].what[4] = ToString(net.before[i].pid)
       /\ \A k \in Kills :
              \A i \in 1..Len(net.before) :
                  ( /\ events[k].what[4] = ToString(net.before[i].pid)
                    /\ net.before[i].pid \notin net.env.kill_fails )
                  => \A j \in 1..Len(net.procs) : net.procs[j].pid # net.before[i].pid

\* ------------------------------------------------------------------ claims: run_cli_command

\* a pipe character occurs in the command, whatever its type
HasPipe(cmd) ==
    \/ \E i \in 1..Len(cmd.text) : cmd.text[i] = "|"
    \/ \E i \in 1..Len(cmd.parts) : \E j \in 1..Len(cmd.parts[i]) : cmd.parts[i][j] = "|"

\* the command is empty: no element, or no character but white space
IsEmpty(cmd) ==
    IF cmd.type \in {"str", "bytes"}
    THEN \A i \in 1..Len(cmd.text) : cmd.text[i] \in Whitespace
    ELSE cmd.parts = <<>>

\* C24: run_cli_command with a command that holds a pipe character, be it a
\* string, bytes, a list or a tuple, raises ValueError and starts no
\* subprocess; so it does with an empty command; any other command is handed
\* to one subprocess.
C24_PipeAndEmptyCommandsRejected ==
    (pc = "clidone") =>
        LET c == calls[1]
        IN /\ (HasPipe(c.command) \/ IsEmpty(c.command)) =>
                  (c.raised = "ValueError" /\ events = <<>>)
           /\ ~(HasPipe(c.command) \/ IsEmpty(c.command)) =>
                  (Len(events) = 1 /\ events[1].ev = "subprocess")

\* C24 witness: a tuple with a pipe inside one of its elements was rejected.
C24_Witness ==
    /\ pc = "clidone"
    /\ calls[1].command = ListCommand("tuple", << <<"echo">>, <<"a", "|", "b">> >>)
    /\ calls[1].raised = "ValueError"

\* ------------------------------------------------------------------ claims: the constructor, twice

\* the steps of a program that register a shortcut
ShortcutSteps(program) ==
    {i \in 1..Len(program) :
        program[i].op = "make_action" /\ program[i].args.keyboard_shortcut # <<>>}

\* how often check_for_custom_networking_configs ran in the constructions
\* so far
ConfigScans ==
    Cardinality({<<k, i>> \in (1..Len(calls)) \X (1..MaxCalls + 1) :
                    /\ i <= calls[k].at
                    /\ calls[k].program[i].op = "check_for_custom_networking_configs"})

\* C25: the shortcut table and the config lists outlive the registry that
\* filled them: every scan of the configs, in whichever construction, adds
\* its entries to the lists once more, and a second construction with the
\* registrations of the first raises ValueError at its first registration
\* of a shortcut (and ends normally when there is none).
C25_ClassTablesAreShared ==
    /\ Len(ssh_tunnel_configs)
           = ConfigScans * Len(custom_configs(NetworkingConfigs, "ssh", "ssh_tunnel_custom_"))
    /\ Len(port_redirect_configs)
           = ConfigScans * Len(custom_configs(NetworkingConfigs, "redirect",
                                              "port_redirect_custom_"))
    /\ Len(calls) = 2 =>
           LET S == ShortcutSteps(calls[2].program)
           IN IF S = {} THEN calls[2].raised = None
              ELSE /\ calls[2].raised = "ValueError"
                   /\ \A i \in S : calls[2].at <= i
                   /\ calls[2].at \in S

\* C25 witness: the first construction ended normally, with a shortcut
\* registered in its second step; the second construction raised there.
C25_Witness ==
    /\ Len(calls) = 2
    /\ calls[1].raised = None
    /\ calls[2].raised = "ValueError" /\ calls[2].at = 2

\* ------------------------------------------------------------------ claims: invocations at the same time

\* the commands in the effects ev that start with the words ws
CmdsIn(ev, ws) ==
    {i \in 1..Len(ev) : ev[i].ev = "cmd" /\ IsPrefix(ws, ev[i].what)}

AliasCommand == <<"sudo", "ifconfig", "lo0", "alias">>

\* the ssh launches among the effects ev
LaunchesIn(ev) == CmdsIn(ev, <<"ssh">>) \cup CmdsIn(ev, <<"sudo", "ssh">>)

\* the invocation p was not stopped by a command that failed
Unhindered(p) == calls[p].raised = None

\* C26: nothing lies between a check and the act that rests on it: the
\* alias command is issued only by an invocation that read the interfaces
\* and found the address missing, and by each such invocation whose sudo
\* prompt passed, however many others did the same; and an invocation whose
\* conflict scan returned launches its ssh forward without looking again,
\* so a finished invocation that nothing failed for has launched exactly
\* once, whatever the others launched in between.
C26_CheckThenActWithoutLock ==
    \A p \in 1..Invocations :
        /\ CmdsIn(calls[p].ev, AliasCommand) # {} => calls[p].missing
        /\ calls[p].missing /\ calls[p].at = "done"
               => \/ Cardinality(CmdsIn(calls[p].ev, AliasCommand)) = 1
                  \/ Cardinality(CmdsIn(calls[p].ev, <<"sudo", "-v">>)) = 1
                       /\ CmdsIn(calls[p].ev, AliasCommand) = {}
        /\ calls[p].at = "done" /\ Unhindered(p)
               => Cardinality(LaunchesIn(calls[p].ev)) = 1

\* C26 witness: two invocations ended normally and two forwards they
\* launched hold the same address and port: both scans came before either
\* launch.
C26_Witness ==
    /\ \A p \in 1..2 : calls[p].at = "done" /\ Unhindered(p)
    /\ Len(Filter(net.procs, net.config.local_address, local_port(net.config))) >= 2

\* two invocations found the alias missing and both issued the alias command
C26_BothCreateAlias ==
    \A p \in 1..2 : calls[p].missing /\ CmdsIn(calls[p].ev, AliasCommand) # {}

\* ------------------------------------------------------------------ claims: one action per identifier

\* the last call that stored an action under the identifier id (0: none)
LastStored(id) ==
    LET S == {k \in Stored : calls[k].id = id}
    IN IF S = {} THEN 0 ELSE CHOOSE k \in S : \A j \in S : j <= k

\* C27: a make_action call raises only for a shortcut that is taken; a call
\* with a callable whose identifier the map already holds leaves the set of
\* identifiers as it was and binds the identifier to the callable of this
\* call; and a dispatch of an identifier invokes one callable, that of the
\* last call that stored the identifier.
C27_LastRegistrationWins ==
    [][ /\ ( /\ Len(calls') = Len(calls) + 1
             /\ calls'[Len(calls')].op = "make_action" )
          => LET k == calls'[Len(calls')]
             IN /\ k.raised # None
                      => k.key # <<>> /\ k.key \in DOMAIN reserved_keyboard_shortcuts
                /\ (k.raised = None /\ k.action # None /\ k.id \in DOMAIN action_list)
                      => /\ DOMAIN action_list' = DOMAIN action_list
                         /\ action_list'[k.id].action = k.action
        /\ ( /\ pc = "build" /\ pc' = "exited" /\ argv'.set /\ ~argv'.list_actions
             /\ argv'.given /\ LastStored(Sanitize(argv'.action)) # 0 )
          => \A i \in 1..Len(events') :
                 events'[i].ev = "invoke"
                     => /\ i = 1
                        /\ events'[i].what
                               = <<calls[LastStored(Sanitize(argv'.action))].action>>
      ]_vars

\* C27 witness: two calls stored different callables under one identifier
\* and the identifier was dispatched: the later callable was invoked.
C27_Witness ==
    /\ Dispatched
    /\ \E j \in Stored, k \in Stored :
           /\ j < k
           /\ calls[j].id = calls[k].id
           /\ calls[j].action # calls[k].action
           /\ k = LastStored(calls[k].id)
           /\ Sanitize(argv.action) = calls[k].id
           /\ events[1] = Event("invoke", <<calls[k].action>>)

\* ------------------------------------------------------------------ claims: the menu line of an action

\* the parts of a line between its "|", white space at their ends removed
RECURSIVE Directives(_, _)
Directives(line, part) ==
    IF line = <<>> THEN <<Strip(part)>>
    ELSE IF Head(line) = "|" THEN <<Strip(part)>> \o Directives(Tail(line), <<>>)
    ELSE Directives(Tail(line), part \o <<Head(line)>>)

\* the line call k printed, without its line feed
LineOf(k) == SubSeq(calls[k].text, 1, Len(calls[k].text) - 1)

\* the directives of ds that start with the atom first
Starting(ds, first) == {i \in 2..Len(ds) : ds[i] # <<>> /\ ds[i][1] = first}

\* C28: the line of a make_action call that stored an action is, read
\* between its "|": the "--" marker depth times and the display name; then
\* directives among which there is one bash with the script path, after it
\* one param1 with the identifier and after that one terminal with true or
\* false as the flag says; alternate=true is among them exactly when the
\* flag is set and key with the shortcut exactly when one was given.
C28_MenuLineOfAnAction ==
    \A k \in Stored :
        LET ds == Directives(LineOf(k), <<>>)
            B  == Starting(ds, "bash=\"")
            P  == Starting(ds, "param1=\"")
            T  == Starting(ds, "terminal=")
        IN /\ ds[1] = Strip(Rep("--", calls[k].depth) \o <<" ">> \o calls[k].name)
           /\ Cardinality(B) = 1 /\ Cardinality(P) = 1 /\ Cardinality(T) = 1
           /\ \A b \in B, p \in P, t \in T :
                  /\ b < p /\ p < t
                  /\ ds[b] = <<"bash=\"">> \o script_name \o <<"\"">>
                  /\ ds[p] = <<"param1=\"">> \o calls[k].id \o <<"\"">>
                  /\ ds[t] = <<"terminal=", IF calls[k].terminal THEN "true" ELSE "false">>
           /\ (\E i \in 2..Len(ds) : ds[i] = <<"alternate=true">>) <=> calls[k].alternate
           /\ Starting(ds, "key=") # {} <=> calls[k].key # <<>>
           /\ \A i \in Starting(ds, "key=") : ds[i] = <<"key=">> \o calls[k].key

\* C28 witness: an action at depth 2 with the alternate flag, a shortcut and
\* terminal=true was stored.
C28_Witness ==
    \E k \in Stored :
        calls[k].depth = 2 /\ calls[k].alternate /\ calls[k].terminal /\ calls[k].key # <<>>

\* ------------------------------------------------------------------ claims: the address guard

\* an address do_verify_loopback_address refuses
Refused(ip) == ip = "" \/ ip = "127.0.0.1" \/ ~IsLoopback(ip)

\* the firewall rules handed to pfctl among the events
Rules == {i \in At("cmd") : events[i].what[1] = "sh"}

InterfaceQueries == Cmds(<<"ifconfig", "-a">>)

\* the local address of the tunnel run, the source address of the redirect
GuardedAddress ==
    IF net.op = "do_execute_ssh_tunnel" THEN net.config.local_address
    ELSE Word(get_var(net.config, "source_address"))

\* C29: a run of do_execute_ssh_tunnel or of port_redirect_custom whose
\* local (source) address is empty, is 127.0.0.1 or does not start with
\* "127." ends with an exception and without an interface query: no ssh is
\* launched, no rule is written and the processes are as they were; and in
\* every run a launch or a rule comes after the interface query of the
\* address verification.
C29_RefusedAddressDoesNothing ==
    (Executed \/ (Redirected /\ net.config.found)) =>
        /\ Refused(GuardedAddress) =>
               /\ net.raised # None
               /\ InterfaceQueries = {}
               /\ Launches = {} /\ Rules = {}
               /\ net.procs = net.before
        /\ \A i \in Launches \cup Rules : \E j \in InterfaceQueries : j < i

\* C29 witness: a tunnel whose fields are all given was asked for on
\* 127.0.0.1, which the interfaces hold, and the run ended with the
\* AssertionError of the address verification.
C29_Witness ==
    /\ Executed
    /\ net.config.local_address = "127.0.0.1"
    /\ "127.0.0.1" \in net.ifaces
    /\ net.message = "Custom loopback IP is required"

\* ------------------------------------------------------------------ claims: Terminate All

TerminatedAll == pc = "netdone" /\ net.op = "action_terminate_all"

SudoValidations == Cmds(<<"sudo", "-v">>)

Scans == Cmds(<<"ps", "-ef">>)

Resets == Cmds(<<"sudo", "pfctl", "-f", "/etc/pf.conf">>)

\* the notification do_terminate_tunnels ends with when it returns
TerminationReturns ==
    {i \in At("notify") : events[i].what \in {<<"No existing SSH tunnels found">>,
                                               <<"Tunnels terminated">>}}

\* the steps that happened came in the order sudo validation, tunnel
\* termination, reset, and the reset happened exactly when the termination
\* returned
InOrder ==
    /\ \A i \in At("cmd") : \E s \in SudoValidations : s <= i
    /\ \A r \in Resets : \E t \in TerminationReturns : t < r
    /\ \A t \in TerminationReturns : \E r \in Resets : t < r
    /\ Cardinality(Resets) <= 1 /\ Cardinality(Scans) <= 1
    /\ \A t \in TerminationReturns : \E c \in Scans : c < t

\* C30 as stated: Terminate All validates sudo, terminates the tunnels and
\* then resets the port redirection, in this order, and the process exits
\* with status 0.
C30_TerminateAllExitsZero ==
    TerminatedAll => (InOrder /\ exit_status = "0")

\* C30 as amended: Terminate All validates sudo first, then terminates the
\* tunnels and then resets the port redirection; the reset is performed
\* exactly when the termination returned (no tunnel found included), after
\* it; the process exits with status 0 when all three succeeded, and when
\* the sudo validation, a kill or the reset fails, or a listed process
\* cannot be read, the steps after it are left out and the process exits
\* with status 1.
C30_TerminateAllInOrder ==
    TerminatedAll =>
        /\ InOrder
        /\ exit_status \in {"0", "1"}
        /\ exit_status = "0" <=> net.raised = "SystemExit"
        /\ net.raised = "SystemExit" <=>
               /\ net.env.sudo_ok
               /\ TerminationReturns # {}
               /\ \E r \in Resets : \E i \in At("notify") :
                      i > r /\ events[i].what = <<"Port redirection terminated">>
        /\ ~net.env.sudo_ok => Scans = {} /\ Resets = {}
        /\ (net.env.sudo_ok /\ Filter(net.before, "", "") = <<>>)
               => TerminationReturns # {} /\ Resets # {}

\* C30 witness: a forward was running; it was killed, the redirection was
\* reset after that and the process exited with status 0.
C30_Witness ==
    /\ TerminatedAll
    /\ exit_status = "0"
    /\ Len(net.procs) < Len(net.before)
    /\ Resets # {}

====
